---- MODULE Spec2Model ----
(***************************************************************************)
(* A model of music_embedding: the interval class (interval.py) and the    *)
(* embedder class (embedder.py).                                           *)
(*                                                                         *)
(* Every method is a pure operator from the object it is called on and its *)
(* arguments to the object after the call, the value returned and the      *)
(* exception raised ("none" when the call returns).  The actions are the   *)
(* calls a client makes; the variables hold the object, the arguments of   *)
(* the last call and what it returned.                                     *)
(*                                                                         *)
(* Python values: a list is a tuple (Python index i is TLA+ index i + 1),  *)
(* a dict is a record, None is the empty tuple and any other optional      *)
(* value v is <<v>>.  An argument whose run-time type the code inspects    *)
(* carries it: [type |-> "list" or "dict", v |-> the value].               *)
(***************************************************************************)
EXTENDS Integers, Sequences, FiniteSets, TLC

VARIABLES
    op,          \* the last call made (the client's position)
    err,         \* the exception the last call raised, "none" if it returned
    iv,          \* the interval object
    sem_arg,     \* semitone2interval: the semitones argument
    specs_arg,   \* set_specs_list, interval2semitone: the specs argument
    sem_ret,     \* interval2semitone: the value returned
    dict_ret,    \* semitone2interval: the dict returned
    specs_ret,   \* get_specs_list: the list returned
    onehot_ret,  \* get_one_hot_specs_list: the dict returned
    emb,         \* the embedder object
    pianoroll_arg,        \* the pianoroll a call was given (None or Some(array))
    intervals_arg,        \* the intervals a call was given (None or Some(array))
    origin_arg,           \* the origin a call was given (None or Some(int))
    velocity_arg,         \* the velocity a call was given (None or Some(int))
    leading_silence_arg,  \* the leading_silence a call was given
    notes_ret,            \* extract_highest_pitch_notes_from_pianoroll: the array returned
    intervals_ret,        \* the interval array an encoder or get_intervals_from_RLE returned
    pianoroll_ret,        \* the pianoroll a decoder returned
    RLE_ret,              \* get_RLE_from_intervals: the array returned
    ref_pianoroll_arg,    \* the reference pianoroll a harmonic call was given
    pixels_arg,           \* the pixels_per_bar or pixels_per_chunk a call was given
    written,              \* the indices <<i, j>> of the cells a decoder assigned, in order
    chunked_ret,          \* chunk_sequence_of_intervals: the array returned
    emb_pre,              \* the embedder object before the last call on its cached operands
    bulk_arg,             \* get_RLE_from_intervals_bulk: the batch given
    RLE_bulk_ret,         \* get_RLE_from_intervals_bulk: the list of arrays returned
    bulk_ret,             \* get_intervals_from_RLE_bulk: the array returned
    pianoroll_first       \* the pianoroll the first of two equal decoder calls returned

ivars == <<iv, sem_arg, specs_arg, sem_ret, dict_ret, specs_ret, onehot_ret>>
evars == <<emb, pianoroll_arg, intervals_arg, origin_arg, velocity_arg,
           leading_silence_arg, notes_ret, intervals_ret, pianoroll_ret, RLE_ret,
           ref_pianoroll_arg, pixels_arg, written, chunked_ret,
           emb_pre, bulk_arg, RLE_bulk_ret, bulk_ret, pianoroll_first>>
\* what the calls on intervals and one pianoroll leave alone
xvars == <<ref_pianoroll_arg, pixels_arg, chunked_ret>>
\* what the calls on explicit operands of one object leave alone
cvars == <<emb_pre, bulk_arg, RLE_bulk_ret, bulk_ret, pianoroll_first>>
vars == <<op, err, ivars, evars>>

(***************************************************************************)
(* Bounds of the model.                                                    *)
(***************************************************************************)
\* semitone2interval is called with -MaxSemitone..MaxSemitone
MaxSemitone == 130
\* descriptor fields are drawn from their valid range widened by Slack
Slack == 1
\* the melodic calls are given pianorolls of at most MaxSteps steps
MaxSteps == 3
\* the decoders are given leading_silence in 0..MaxLead
MaxLead == 1
\* extract_highest_pitch_notes_from_pianoroll is given at most MaxChordSteps steps
MaxChordSteps == 2
\* the RLE calls are given interval sequences of at most MaxRows rows
MaxRows == 4
\* the harmonic calls are given pianorolls of at most MaxHarmonicSteps steps
MaxHarmonicSteps == 2
\* the barwise calls are given pianorolls of at most MaxBarSteps steps
MaxBarSteps == 4
\* pixels_per_bar and pixels_per_chunk are drawn from 0..MaxPixels
MaxPixels == 3
\* a batch of the bulk calls has up to MaxBatch sequences of up to
\* MaxBulkRows rows
MaxBatch == 2
MaxBulkRows == 3

(***************************************************************************)
(* Python helpers.                                                         *)
(***************************************************************************)
None == <<>>
Some(v) == <<v>>
IsNone(x) == Len(x) = 0
PyList(l) == [type |-> "list", v |-> l]
PyDict(d) == [type |-> "dict", v |-> d]

\* [0] * n
Zeros(n) == [i \in 1..n |-> 0]

\* list[idx] = val for a Python list: a negative idx counts from the end.
\* The result is the list after the assignment, or IndexError.
PyListSet(list, idx, val) ==
    LET n == Len(list)
        k == IF idx < 0 THEN idx + n ELSE idx
    IN  IF k < 0 \/ k >= n
        THEN [list |-> list, err |-> "IndexError"]
        ELSE [list |-> [list EXCEPT ![k + 1] = val], err |-> "none"]

\* np.argmax of a one-dimensional array: the first index of the largest
\* value
argmax(list) ==
    LET values == {list[j] : j \in 1..Len(list)}
        m      == CHOOSE v \in values : \A u \in values : u <= v
    IN  CHOOSE k \in 0..(Len(list) - 1) :
            list[k + 1] = m /\ \A j \in 0..(k - 1) : list[j + 1] # m

\* a two-dimensional numpy array: shape (Len(rows), w)
ndarray(w, rows) == [w |-> w, rows |-> rows]
\* np.zeros((n, w))
zeros(n, w) == ndarray(w, [i \in 1..n |-> [j \in 1..w |-> 0]])
\* what a call that raises returns
NoArray == ndarray(0, <<>>)
\* a three-dimensional numpy array of shape (Len(chunks), p, w): chunks of p
\* rows of w cells
ndarray3(p, w, chunks) == [p |-> p, w |-> w, chunks |-> chunks]
NoChunks == ndarray3(0, 0, <<>>)
\* the value a cell of dtype uint8 or int8 holds after x is stored in it
uint8(x) == x % 256
int8(x) == ((x + 128) % 256) - 128
\* a[i, j] = val for a row i of the array and j in -w..w-1, w the width: a
\* negative j counts from the end of the row
set_cell(rows, i, j, val) ==
    [rows EXCEPT ![i + 1][(IF j < 0 THEN j + Len(rows[i + 1]) ELSE j) + 1] = val]

(***************************************************************************)
(* class interval                                                          *)
(***************************************************************************)
feature_dimensions == 4

\* interval(): the constructor's defaults
interval_init ==
    [interval_order |-> 1, interval_type |-> 0, octave_offset |-> 0,
     is_descending |-> 0, semitones |-> 0]

\* the Q-table of semitone2interval: remainder -> <<interval_order, interval_type>>
QChain(remainder_semitones) ==
    CASE remainder_semitones = 0 -> <<1, 0>>
      [] remainder_semitones = 1 -> <<2, -1>>
      [] remainder_semitones = 2 -> <<2, 1>>
      [] remainder_semitones = 3 -> <<3, -1>>
      [] remainder_semitones = 4 -> <<3, 1>>
      [] remainder_semitones = 5 -> <<4, 0>>
      [] remainder_semitones = 6 -> <<5, -2>>
      [] remainder_semitones = 7 -> <<5, 0>>
      [] remainder_semitones = 8 -> <<6, -1>>
      [] remainder_semitones = 9 -> <<6, 1>>
      [] remainder_semitones = 10 -> <<7, -1>>
      [] remainder_semitones = 11 -> <<7, 1>>
      [] OTHER -> <<1, 0>>

\* mutant: the tritone entered as a perfect fifth
QTable_tritone(remainder_semitones) ==
    IF remainder_semitones = 6 THEN <<5, 0>> ELSE QChain(remainder_semitones)

QTable(remainder_semitones) == QChain(remainder_semitones)

\* mutant: the direction flag is never raised
semitone2interval_nodesc(self, semitones) ==
    LET s0 == IF ~IsNone(semitones) THEN semitones[1] ELSE self.semitones
        s1 == IF s0 < 0 THEN -s0 ELSE s0
        q  == QTable(s1 % 12)
    IN  [interval_order |-> q[1], interval_type |-> q[2],
         octave_offset |-> s1 \div 12, is_descending |-> 0, semitones |-> s1]

\* semitone2interval: the object after the call; the dict returned is
\* specs_dict of it
semitone2interval(self, semitones) ==
    LET s0 == IF ~IsNone(semitones) THEN semitones[1] ELSE self.semitones
        is_descending == IF s0 < 0 THEN 1 ELSE 0
        s1 == IF s0 < 0 THEN -s0 ELSE s0
        q  == QTable(s1 % 12)
    IN  [interval_order |-> q[1], interval_type |-> q[2],
         octave_offset |-> s1 \div 12, is_descending |-> is_descending,
         semitones |-> s1]

\* the dict semitone2interval returns
specs_dict(self) ==
    [interval_order |-> self.interval_order, interval_type |-> self.interval_type,
     octave_offset |-> self.octave_offset, is_descending |-> self.is_descending]

get_specs_list(self) ==
    <<self.interval_order, self.interval_type, self.is_descending, self.octave_offset>>

get_silence_specs_list == Zeros(feature_dimensions)

is_silence(self) == get_specs_list(self) = get_silence_specs_list

\* mutant: the upper bound of octave_offset is off by one
set_specs_list_oct10(self, specs) ==
    LET d == specs.type = "dict"
        interval_order == IF d THEN specs.v.interval_order ELSE specs.v[1]
        interval_type  == IF d THEN specs.v.interval_type ELSE specs.v[2]
        is_descending  == IF d THEN specs.v.is_descending ELSE specs.v[3]
        octave_offset  == IF d THEN specs.v.octave_offset ELSE specs.v[4]
    IN  IF \/ interval_order > 7 \/ interval_order < 0
           \/ interval_type > 2 \/ interval_type < -2
           \/ is_descending < 0 \/ is_descending > 1
           \/ octave_offset < 0 \/ octave_offset > 10
        THEN [self |-> self, err |-> "ValueError"]
        ELSE [self |-> [self EXCEPT !.interval_order = interval_order,
                                    !.interval_type = interval_type,
                                    !.is_descending = is_descending,
                                    !.octave_offset = octave_offset],
              err |-> "none"]

\* set_specs_list: the object after the call and the exception raised
set_specs_list(self, specs) ==
    LET d == specs.type = "dict"
        interval_order == IF d THEN specs.v.interval_order ELSE specs.v[1]
        interval_type  == IF d THEN specs.v.interval_type ELSE specs.v[2]
        is_descending  == IF d THEN specs.v.is_descending ELSE specs.v[3]
        octave_offset  == IF d THEN specs.v.octave_offset ELSE specs.v[4]
    IN  IF \/ interval_order > 7 \/ interval_order < 0
           \/ interval_type > 2 \/ interval_type < -2
           \/ is_descending < 0 \/ is_descending > 1
           \/ octave_offset < 0 \/ octave_offset > 9
        THEN [self |-> self, err |-> "ValueError"]
        ELSE [self |-> [self EXCEPT !.interval_order = interval_order,
                                    !.interval_type = interval_type,
                                    !.is_descending = is_descending,
                                    !.octave_offset = octave_offset],
              err |-> "none"]

\* the if-chain of interval2semitone: self.semitones before the octave and
\* the direction are applied (0 when no branch assigns it)
BaseChain(interval_order, interval_type) ==
    CASE interval_order = 1 ->
            (CASE interval_type = -2 -> -1
               [] interval_type = -1 -> 0
               [] interval_type = 0 -> 0
               [] interval_type = 1 -> 0
               [] interval_type = 2 -> 1
               [] OTHER -> 0)
      [] interval_order = 2 ->
            (CASE interval_type = -2 -> 0
               [] interval_type = -1 -> 1
               [] interval_type = 0 -> 2
               [] interval_type = 1 -> 2
               [] interval_type = 2 -> 3
               [] OTHER -> 0)
      [] interval_order = 3 ->
            (CASE interval_type = -2 -> 2
               [] interval_type = -1 -> 3
               [] interval_type = 0 -> 4
               [] interval_type = 1 -> 4
               [] interval_type = 2 -> 5
               [] OTHER -> 0)
      [] interval_order = 4 ->
            (CASE interval_type = -2 -> 4
               [] interval_type = -1 -> 5
               [] interval_type = 0 -> 5
               [] interval_type = 1 -> 5
               [] interval_type = 2 -> 6
               [] OTHER -> 0)
      [] interval_order = 5 ->
            (CASE interval_type = -2 -> 6
               [] interval_type = -1 -> 7
               [] interval_type = 0 -> 7
               [] interval_type = 1 -> 7
               [] interval_type = 2 -> 8
               [] OTHER -> 0)
      [] interval_order = 6 ->
            (CASE interval_type = -2 -> 7
               [] interval_type = -1 -> 8
               [] interval_type = 0 -> 9
               [] interval_type = 1 -> 9
               [] interval_type = 2 -> 10
               [] OTHER -> 0)
      [] interval_order = 7 ->
            (CASE interval_type = -2 -> 9
               [] interval_type = -1 -> 10
               [] interval_type = 0 -> 11
               [] interval_type = 1 -> 11
               [] interval_type = 2 -> 12
               [] OTHER -> 0)
      [] OTHER -> 0

\* mutant: only the pairs the Q-table produces are tabulated for the
\* imperfect orders 2, 3, 6 and 7; the others fall through to 0
BaseSemitones_fallthrough(interval_order, interval_type) ==
    IF interval_order \in {2, 3, 6, 7} /\ interval_type \in {-2, 0, 2}
    THEN 0
    ELSE BaseChain(interval_order, interval_type)

\* mutant: the major sixth is one semitone short
BaseSemitones_sixth(interval_order, interval_type) ==
    IF interval_order = 6 /\ interval_type = 1
    THEN 8
    ELSE BaseChain(interval_order, interval_type)

BaseSemitones(interval_order, interval_type) == BaseChain(interval_order, interval_type)

\* the end of interval2semitone: the direction is applied to the semitones
\* up, which are stored and returned
interval2semitone_apply(self, up) ==
    LET sem == IF self.is_descending = 1 THEN -up ELSE up
    IN  [self |-> [self EXCEPT !.semitones = sem], ret |-> sem, err |-> "none"]

\* interval2semitone once the descriptor is stored: the if-chain, then the
\* octaves
interval2semitone_stored(self) ==
    interval2semitone_apply(self, BaseSemitones(self.interval_order, self.interval_type)
                                      + self.octave_offset * 12)

\* interval2semitone: the object after the call, the value returned and the
\* exception raised; specs is None or Some(list or dict)
interval2semitone(self, specs) ==
    LET r == IF ~IsNone(specs) THEN set_specs_list(self, specs[1])
                               ELSE [self |-> self, err |-> "none"]
    IN  IF r.err # "none"
        THEN [self |-> r.self, ret |-> 0, err |-> r.err]
        ELSE interval2semitone_stored(r.self)

\* mutant: the index of the order indicator is the order itself
get_one_hot_specs_list_shift(self) ==
    LET o == PyListSet(Zeros(7), self.interval_order, 1)
        t == PyListSet(Zeros(5), self.interval_type + 2, 1)
    IN  [ret |-> [interval_order |-> o.list, interval_type |-> t.list,
                  is_descending |-> self.is_descending,
                  octave_offset |-> self.octave_offset],
         err |-> IF o.err # "none" THEN o.err ELSE t.err]

\* get_one_hot_specs_list: the dict returned and the exception raised
get_one_hot_specs_list(self) ==
    LET o == PyListSet(Zeros(7), self.interval_order - 1, 1)
        t == PyListSet(Zeros(5), self.interval_type + 2, 1)
    IN  [ret |-> [interval_order |-> o.list, interval_type |-> t.list,
                  is_descending |-> self.is_descending,
                  octave_offset |-> self.octave_offset],
         err |-> IF o.err # "none" THEN o.err ELSE t.err]

\* set_one_hot_specs_list: the object after the call and the exception raised
set_one_hot_specs_list(self, interval_order, interval_type, is_descending, octave_offset) ==
    set_specs_list(self, PyList(<<argmax(interval_order) + 1, argmax(interval_type) - 2,
                                  is_descending, octave_offset>>))

(***************************************************************************)
(* class embedder                                                          *)
(***************************************************************************)
NOTES_IN_MIDI == 128

\* embedder(): the constructor's defaults
embedder_init ==
    [pianoroll |-> None, intervals |-> None, default_velocity |-> 100,
     origin |-> 60, pixels_per_bar |-> 96]

\* mutant: the clipped row is not multiplied by coef, so the first active
\* lane wins
lead_pitch_nocoef(row) ==
    argmax([j \in 1..Len(row) |-> IF uint8(row[j]) > 1 THEN 1 ELSE uint8(row[j])])

\* one row of extract_highest_pitch_notes_from_pianoroll: astype(uint8), clip
\* to 0..1, multiply by coef = 1..128 into the uint8 row, argmax
lead_pitch(row) ==
    LET clipped == [j \in 1..Len(row) |-> IF uint8(row[j]) > 1 THEN 1 ELSE uint8(row[j])]
        coef    == [j \in 1..Len(row) |-> j]
    IN  argmax([j \in 1..Len(row) |-> uint8(clipped[j] * coef[j])])

\* extract_highest_pitch_notes_from_pianoroll: the array returned and the
\* exception raised.  self.pianoroll is left as it is: astype copies it
\* whatever preserve_pianoroll is.
extract_highest_pitch_notes_from_pianoroll(self) ==
    IF IsNone(self.pianoroll)
    THEN [ret |-> <<>>, err |-> "TypeError"]
    ELSE IF self.pianoroll[1].w # NOTES_IN_MIDI
    THEN [ret |-> <<>>, err |-> "IndexError"]
    ELSE [ret |-> [i \in 1..Len(self.pianoroll[1].rows) |->
                      lead_pitch(self.pianoroll[1].rows[i])],
          err |-> "none"]

\* mutant: the reference is the step before, sounded or not
RECURSIVE melodic_loop_prev(_, _, _, _, _)
melodic_loop_prev(notes, i, last_voice_index, curser, intervals) ==
    IF i >= Len(notes) THEN intervals
    ELSE IF notes[i + 1] = 0
    THEN melodic_loop_prev(notes, i + 1, last_voice_index, curser,
                           [intervals EXCEPT ![i + 1] = get_silence_specs_list])
    ELSE LET c == semitone2interval(
                      [curser EXCEPT !.semitones = notes[i + 1] - notes[i]], None)
         IN  melodic_loop_prev(notes, i + 1, i, c,
                               [intervals EXCEPT ![i + 1] =
                                   [k \in 1..feature_dimensions |-> int8(get_specs_list(c)[k])]])

\* the for loop of get_melodic_intervals_from_pianoroll, from index i on
RECURSIVE melodic_loop(_, _, _, _, _)
melodic_loop(notes, i, last_voice_index, curser, intervals) ==
    IF i >= Len(notes) THEN intervals
    ELSE IF notes[i + 1] = 0
    THEN melodic_loop(notes, i + 1, last_voice_index, curser,
                      [intervals EXCEPT ![i + 1] = get_silence_specs_list])
    ELSE LET c == semitone2interval(
                      [curser EXCEPT !.semitones = notes[i + 1] - notes[last_voice_index + 1]],
                      None)
         IN  melodic_loop(notes, i + 1, i, c,
                          [intervals EXCEPT ![i + 1] =
                              [k \in 1..feature_dimensions |-> int8(get_specs_list(c)[k])]])

\* get_melodic_intervals_from_pianoroll: the object after the call, the
\* array returned and the exception raised
get_melodic_intervals_from_pianoroll(self, pianoroll) ==
    LET s1 == IF ~IsNone(pianoroll) THEN [self EXCEPT !.pianoroll = pianoroll] ELSE self
    IN  IF IsNone(s1.pianoroll)
        THEN [self |-> s1, ret |-> NoArray, err |-> "TypeError"]
        ELSE IF s1.pianoroll[1].w # NOTES_IN_MIDI
        THEN [self |-> s1, ret |-> NoArray, err |-> "IndexError"]
        ELSE
        LET notes == extract_highest_pitch_notes_from_pianoroll(s1).ret
            z     == zeros(Len(notes), feature_dimensions)
            s2    == [s1 EXCEPT !.intervals = Some(z)]
        IN  IF Len(notes) = 0
            THEN \* notes[0] of an empty array
                 [self |-> s2, ret |-> NoArray, err |-> "IndexError"]
            ELSE IF notes[1] = 0 /\ Len(notes) < 2
            THEN \* self.intervals[1] = silent_interval on a one-row array
                 [self |-> s2, ret |-> NoArray, err |-> "IndexError"]
            ELSE
            LET start == IF notes[1] = 0
                         THEN [z.rows EXCEPT ![2] = get_silence_specs_list]
                         ELSE z.rows
                out   == ndarray(feature_dimensions,
                                 melodic_loop(notes, 1, 0, interval_init, start))
            IN  [self |-> [s1 EXCEPT !.intervals = Some(out)], ret |-> out, err |-> "none"]

\* mutant: a pitch below 0 is not rejected
out_of_range_nolow(pitch) == pitch > 127

\* `origin > 127 or origin < 0`, the test before a note is written
out_of_range(pitch) == pitch > 127 \/ pitch < 0

\* the for loop of get_pianoroll_from_melodic_intervals, from index i on:
\* the pianoroll so far, the exception raised and the cells assigned so far
RECURSIVE melodic_decode_loop(_, _, _, _, _, _, _, _)
melodic_decode_loop(intervals, i, curser, semitones, origin, pianoroll, velocity, written_) ==
    IF i >= Len(intervals) THEN [pianoroll |-> pianoroll, err |-> "none", written |-> written_]
    ELSE
    LET r == set_specs_list(curser, PyList(intervals[i + 1]))
    IN  IF r.err # "none" THEN [pianoroll |-> pianoroll, err |-> r.err, written |-> written_]
        ELSE IF is_silence(r.self)
        THEN melodic_decode_loop(intervals, i + 1, r.self, semitones, origin,
                                 pianoroll, velocity, written_)
        ELSE
        LET c   == IF intervals[i + 1] # intervals[i]
                   THEN interval2semitone(r.self, None)
                   ELSE [self |-> r.self, ret |-> semitones, err |-> "none"]
            o   == origin + c.ret
        IN  IF out_of_range(o)
            THEN [pianoroll |-> pianoroll, err |-> "IndexError", written |-> written_]
            ELSE melodic_decode_loop(intervals, i + 1, c.self, c.ret, o,
                     set_cell(pianoroll, i + 1, o, velocity), velocity,
                     Append(written_, <<i + 1, o>>))

\* get_pianoroll_from_melodic_intervals, after its arguments are validated:
\* intervals is self.intervals[1:], leading_silence >= 0
melodic_decode(s2, intervals, origin, velocity, leading_silence) ==
    LET p0 == set_cell(zeros(Len(intervals) + 1, NOTES_IN_MIDI).rows,
                       leading_silence, origin, velocity)
        w0 == << <<leading_silence, origin>> >>
        s3 == [s2 EXCEPT !.pianoroll = Some(ndarray(NOTES_IN_MIDI, p0))]
    IN  IF leading_silence >= Len(intervals)
        THEN \* self.intervals[leading_silence] past the last row
             [self |-> s3, ret |-> NoArray, err |-> "IndexError", written |-> w0]
        ELSE
        LET r == set_specs_list(interval_init, PyList(intervals[leading_silence + 1]))
        IN  IF r.err # "none"
            THEN [self |-> s3, ret |-> NoArray, err |-> r.err, written |-> w0]
            ELSE
            LET c  == IF is_silence(r.self)
                      THEN [self |-> r.self, ret |-> 0, err |-> "none"]
                      ELSE interval2semitone(r.self, None)
                o1 == origin + c.ret
            IN  IF out_of_range(o1)
                THEN [self |-> s3, ret |-> NoArray, err |-> "IndexError", written |-> w0]
                ELSE
                LET p1 == IF is_silence(r.self) THEN p0
                          ELSE set_cell(p0, leading_silence + 1, o1, velocity)
                    w1 == IF is_silence(r.self) THEN w0
                          ELSE w0 \o << <<leading_silence + 1, o1>> >>
                    l  == melodic_decode_loop(intervals, leading_silence + 1, c.self,
                                              0, o1, p1, velocity, w1)
                    out == ndarray(NOTES_IN_MIDI, l.pianoroll)
                IN  [self |-> [s2 EXCEPT !.pianoroll = Some(out)],
                     ret |-> IF l.err = "none" THEN out ELSE NoArray,
                     err |-> l.err,
                     written |-> l.written]

\* get_pianoroll_from_melodic_intervals: the object after the call, the
\* array returned, the exception raised and the cells assigned; origin and
\* velocity are None or Some(int), leading_silence >= 0
get_pianoroll_from_melodic_intervals(self, intervals, origin, velocity, leading_silence) ==
    LET s1 == IF ~IsNone(intervals) THEN [self EXCEPT !.intervals = intervals] ELSE self
        o  == IF IsNone(origin) THEN self.origin ELSE origin[1]
        v  == IF IsNone(velocity) THEN self.default_velocity ELSE velocity[1]
    IN  IF IsNone(s1.intervals)
        THEN [self |-> s1, ret |-> NoArray, err |-> "TypeError", written |-> <<>>]
        ELSE IF s1.intervals[1].w # feature_dimensions
        THEN [self |-> s1, ret |-> NoArray, err |-> "IndexError", written |-> <<>>]
        ELSE IF leading_silence >= Len(s1.intervals[1].rows)
        THEN [self |-> s1, ret |-> NoArray, err |-> "ValueError", written |-> <<>>]
        ELSE IF out_of_range(o)
        THEN [self |-> s1, ret |-> NoArray, err |-> "IndexError", written |-> <<>>]
        ELSE IF out_of_range(v)
        THEN [self |-> s1, ret |-> NoArray, err |-> "IndexError", written |-> <<>>]
        ELSE
        LET cut == ndarray(s1.intervals[1].w, Tail(s1.intervals[1].rows))
        IN  melodic_decode([s1 EXCEPT !.intervals = Some(cut)], cut.rows, o, v,
                           leading_silence)

\* mutant: the scan starts at the note's own lane
harmonic_ref_note_own(ref_row, note) ==
    LET below == {k \in 0..note : ref_row[k + 1] # 0}
    IN  IF below = {} THEN 0 - 1 ELSE CHOOSE k \in below : \A m \in below : m <= k

\* the while loop of get_harmonic_intervals_from_pianoroll: the greatest
\* lane below note that is active in the reference row, -1 if there is none
harmonic_ref_note(ref_row, note) ==
    LET below == {k \in 0..(note - 1) : ref_row[k + 1] # 0}
    IN  IF below = {} THEN 0 - 1 ELSE CHOOSE k \in below : \A m \in below : m <= k

\* curser.semitones = semitones; curser.semitone2interval(); the int8 row
\* that self.intervals[i] = curser.get_specs_list() stores
interval_row(semitones) ==
    [k \in 1..feature_dimensions |->
        int8(get_specs_list(semitone2interval(interval_init, Some(semitones)))[k])]

\* the row get_harmonic_intervals_from_pianoroll stores for a note and the
\* reference lane the while loop ended on
harmonic_row(note, ref_note) ==
    IF ref_note >= 0 THEN interval_row(note - ref_note) ELSE get_silence_specs_list

\* the for loop of get_harmonic_intervals_from_pianoroll, from index i on:
\* the intervals so far and the exception raised
RECURSIVE harmonic_loop(_, _, _, _)
harmonic_loop(notes, ref_rows, i, intervals) ==
    IF i >= Len(notes) THEN [intervals |-> intervals, err |-> "none"]
    ELSE IF notes[i + 1] = 0
    THEN harmonic_loop(notes, ref_rows, i + 1,
                       [intervals EXCEPT ![i + 1] = get_silence_specs_list])
    ELSE IF i >= Len(ref_rows)
    THEN \* ref_pianoroll[i, ref_note] past the last row of the reference
         [intervals |-> intervals, err |-> "IndexError"]
    ELSE harmonic_loop(notes, ref_rows, i + 1,
                       [intervals EXCEPT ![i + 1] =
                           harmonic_row(notes[i + 1],
                                        harmonic_ref_note(ref_rows[i + 1], notes[i + 1]))])

\* what get_harmonic_intervals_from_pianoroll returns when its loop ends
harmonic_encoded(s1, l) ==
    [self |-> [s1 EXCEPT !.intervals = Some(ndarray(feature_dimensions, l.intervals))],
     ret |-> IF l.err = "none" THEN ndarray(feature_dimensions, l.intervals) ELSE NoArray,
     err |-> l.err]

\* get_harmonic_intervals_from_pianoroll once self.pianoroll is set
harmonic_encode(s1, ref_pianoroll) ==
    IF IsNone(s1.pianoroll)
    THEN [self |-> s1, ret |-> NoArray, err |-> "TypeError"]
    ELSE IF s1.pianoroll[1].w # NOTES_IN_MIDI \/ ref_pianoroll.w # NOTES_IN_MIDI
    THEN [self |-> s1, ret |-> NoArray, err |-> "IndexError"]
    ELSE harmonic_encoded(s1,
             harmonic_loop(extract_highest_pitch_notes_from_pianoroll(s1).ret,
                           ref_pianoroll.rows, 0,
                           zeros(Len(s1.pianoroll[1].rows), feature_dimensions).rows))

\* get_harmonic_intervals_from_pianoroll: the object after the call, the
\* array returned and the exception raised
get_harmonic_intervals_from_pianoroll(self, ref_pianoroll, pianoroll) ==
    harmonic_encode(IF ~IsNone(pianoroll) THEN [self EXCEPT !.pianoroll = pianoroll]
                                          ELSE self,
                    ref_pianoroll)

\* one voiced reference step of get_pianoroll_from_harmonic_intervals: c is
\* what interval2semitone returned for row i; the pianoroll, the exception
\* raised and the cells assigned so far
RECURSIVE harmonic_decode_loop(_, _, _, _, _, _, _)
\* mutant: the note is written at the reference pitch
harmonic_decode_note_ref(ref_notes, intervals, i, c, pianoroll, velocity, written_) ==
    IF c.err # "none"
    THEN [pianoroll |-> pianoroll, err |-> c.err, written |-> written_]
    ELSE IF out_of_range(ref_notes[i + 1] + c.ret)
    THEN [pianoroll |-> pianoroll, err |-> "IndexError", written |-> written_]
    ELSE harmonic_decode_loop(ref_notes, intervals, i + 1, c.self,
             set_cell(pianoroll, i, ref_notes[i + 1], velocity), velocity,
             Append(written_, <<i, ref_notes[i + 1]>>))

harmonic_decode_note(ref_notes, intervals, i, c, pianoroll, velocity, written_) ==
    IF c.err # "none"
    THEN [pianoroll |-> pianoroll, err |-> c.err, written |-> written_]
    ELSE IF out_of_range(ref_notes[i + 1] + c.ret)
    THEN [pianoroll |-> pianoroll, err |-> "IndexError", written |-> written_]
    ELSE harmonic_decode_loop(ref_notes, intervals, i + 1, c.self,
             set_cell(pianoroll, i, ref_notes[i + 1] + c.ret, velocity), velocity,
             Append(written_, <<i, ref_notes[i + 1] + c.ret>>))

\* the for loop of get_pianoroll_from_harmonic_intervals, from index i on
harmonic_decode_loop(ref_notes, intervals, i, curser, pianoroll, velocity, written_) ==
    IF i >= Len(ref_notes)
    THEN [pianoroll |-> pianoroll, err |-> "none", written |-> written_]
    ELSE IF ref_notes[i + 1] = 0
    THEN harmonic_decode_loop(ref_notes, intervals, i + 1, curser, pianoroll, velocity,
                              written_)
    ELSE IF i >= Len(intervals)
    THEN \* self.intervals[i] past the last row
         [pianoroll |-> pianoroll, err |-> "IndexError", written |-> written_]
    ELSE harmonic_decode_note(ref_notes, intervals, i,
             interval2semitone(curser, Some(PyList(intervals[i + 1]))),
             pianoroll, velocity, written_)

\* what get_pianoroll_from_harmonic_intervals returns when its loop ends
harmonic_decoded(s2, l) ==
    [self |-> [s2 EXCEPT !.pianoroll = Some(ndarray(NOTES_IN_MIDI, l.pianoroll))],
     ret |-> IF l.err = "none" THEN ndarray(NOTES_IN_MIDI, l.pianoroll) ELSE NoArray,
     err |-> l.err,
     written |-> l.written]

\* get_pianoroll_from_harmonic_intervals once self.pianoroll and
\* self.intervals are set and velocity has its default
harmonic_decode(s2, velocity) ==
    IF IsNone(s2.pianoroll)
    THEN [self |-> s2, ret |-> NoArray, err |-> "TypeError", written |-> <<>>]
    ELSE IF s2.pianoroll[1].w # NOTES_IN_MIDI
    THEN [self |-> s2, ret |-> NoArray, err |-> "IndexError", written |-> <<>>]
    ELSE IF IsNone(s2.intervals)
    THEN [self |-> s2, ret |-> NoArray, err |-> "TypeError", written |-> <<>>]
    ELSE IF s2.intervals[1].w # feature_dimensions
    THEN [self |-> s2, ret |-> NoArray, err |-> "IndexError", written |-> <<>>]
    ELSE IF out_of_range(velocity)
    THEN [self |-> s2, ret |-> NoArray, err |-> "IndexError", written |-> <<>>]
    ELSE harmonic_decoded(s2,
             harmonic_decode_loop(extract_highest_pitch_notes_from_pianoroll(s2).ret,
                                  s2.intervals[1].rows, 0, interval_init,
                                  zeros(Len(s2.intervals[1].rows), NOTES_IN_MIDI).rows,
                                  velocity, <<>>))

\* get_pianoroll_from_harmonic_intervals stores intervals once
\* self.pianoroll has passed its tests
harmonic_store_intervals(s1, intervals) ==
    IF IsNone(s1.pianoroll) \/ IsNone(intervals) THEN s1
    ELSE IF s1.pianoroll[1].w # NOTES_IN_MIDI THEN s1
    ELSE [s1 EXCEPT !.intervals = intervals]

\* get_pianoroll_from_harmonic_intervals: the object after the call, the
\* array returned, the exception raised and the cells assigned
get_pianoroll_from_harmonic_intervals(self, pianoroll, intervals, velocity) ==
    harmonic_decode(harmonic_store_intervals(
                        IF ~IsNone(pianoroll) THEN [self EXCEPT !.pianoroll = pianoroll]
                                              ELSE self,
                        intervals),
                    IF IsNone(velocity) THEN self.default_velocity ELSE velocity[1])

\* the first index in a..(b - 1) whose note is not 0, b if there is none
first_voiced(notes, a, b) ==
    LET voiced == {k \in a..(b - 1) : notes[k + 1] # 0}
    IN  IF voiced = {} THEN b ELSE CHOOSE k \in voiced : \A m \in voiced : k <= m

\* the rows of a non-empty bar of get_barwise_intervals_from_pianoroll: f
\* is the index of the first note of the bar
barwise_bar(notes, a, b, f, last_bar_ref_note, intervals) ==
    [k \in 1..Len(intervals) |->
        IF k - 1 < a \/ k - 1 >= b THEN intervals[k]
        ELSE IF k - 1 = f THEN interval_row(notes[f + 1] - last_bar_ref_note)
        ELSE IF k - 1 < f \/ notes[k] = 0 THEN get_silence_specs_list
        ELSE interval_row(notes[k] - notes[f + 1])]

\* mutant: the first note of a bar is measured from the first note of the
\* melody, not from the first note of the previous non-empty bar
RECURSIVE barwise_loop_first(_, _, _, _, _)
barwise_loop_first(notes, pixels_per_bar, bar_number, last_bar_ref_note, intervals) ==
    IF bar_number >= Len(notes) \div pixels_per_bar THEN intervals
    ELSE IF first_voiced(notes, bar_number * pixels_per_bar,
                         (bar_number + 1) * pixels_per_bar)
                = (bar_number + 1) * pixels_per_bar
    THEN barwise_loop_first(notes, pixels_per_bar, bar_number + 1, last_bar_ref_note,
                            intervals)
    ELSE barwise_loop_first(notes, pixels_per_bar, bar_number + 1, last_bar_ref_note,
             barwise_bar(notes, bar_number * pixels_per_bar,
                         (bar_number + 1) * pixels_per_bar,
                         first_voiced(notes, bar_number * pixels_per_bar,
                                      (bar_number + 1) * pixels_per_bar),
                         last_bar_ref_note, intervals))

\* the for loop over the bars of get_barwise_intervals_from_pianoroll, from
\* bar bar_number on
RECURSIVE barwise_loop(_, _, _, _, _)
barwise_loop(notes, pixels_per_bar, bar_number, last_bar_ref_note, intervals) ==
    IF bar_number >= Len(notes) \div pixels_per_bar THEN intervals
    ELSE IF first_voiced(notes, bar_number * pixels_per_bar,
                         (bar_number + 1) * pixels_per_bar)
                = (bar_number + 1) * pixels_per_bar
    THEN \* the bar is empty
         barwise_loop(notes, pixels_per_bar, bar_number + 1, last_bar_ref_note, intervals)
    ELSE barwise_loop(notes, pixels_per_bar, bar_number + 1,
             notes[first_voiced(notes, bar_number * pixels_per_bar,
                                (bar_number + 1) * pixels_per_bar) + 1],
             barwise_bar(notes, bar_number * pixels_per_bar,
                         (bar_number + 1) * pixels_per_bar,
                         first_voiced(notes, bar_number * pixels_per_bar,
                                      (bar_number + 1) * pixels_per_bar),
                         last_bar_ref_note, intervals))

\* get_barwise_intervals_from_pianoroll from the notes on
barwise_encoded(s1, notes, pixels_per_bar) ==
    LET out == ndarray(feature_dimensions,
                   IF first_voiced(notes, 0, Len(notes)) = Len(notes)
                   THEN \* all notes are 0
                        zeros(Len(notes), feature_dimensions).rows
                   ELSE barwise_loop(notes, pixels_per_bar, 0,
                                     notes[first_voiced(notes, 0, Len(notes)) + 1],
                                     zeros(Len(notes), feature_dimensions).rows))
    IN  [self |-> [s1 EXCEPT !.intervals = Some(out)], ret |-> out, err |-> "none"]

\* get_barwise_intervals_from_pianoroll once self.pianoroll is set and
\* pixels_per_bar has its default
barwise_encode(s1, pixels_per_bar) ==
    IF IsNone(s1.pianoroll)
    THEN [self |-> s1, ret |-> NoArray, err |-> "TypeError"]
    ELSE IF s1.pianoroll[1].w # NOTES_IN_MIDI
    THEN [self |-> s1, ret |-> NoArray, err |-> "IndexError"]
    ELSE IF pixels_per_bar < 1
    THEN [self |-> s1, ret |-> NoArray, err |-> "ValueError"]
    ELSE barwise_encoded(s1, extract_highest_pitch_notes_from_pianoroll(s1).ret,
                         pixels_per_bar)

\* get_barwise_intervals_from_pianoroll: the object after the call, the
\* array returned and the exception raised; pixels_per_bar is None or
\* Some(int)
get_barwise_intervals_from_pianoroll(self, pianoroll, pixels_per_bar) ==
    barwise_encode(IF ~IsNone(pianoroll) THEN [self EXCEPT !.pianoroll = pianoroll]
                                         ELSE self,
                   IF IsNone(pixels_per_bar) THEN self.pixels_per_bar
                                             ELSE pixels_per_bar[1])

\* mutant: a new bar does not make the origin unknown
new_bar_known(i, pixels_per_bar, origin_is_unkown) == origin_is_unkown

\* origin_is_unkown once row i of get_pianoroll_from_barwise_intervals has
\* tested whether a new bar has started
new_bar(i, pixels_per_bar, origin_is_unkown) ==
    origin_is_unkown \/ i % pixels_per_bar = 0

\* a voiced row i of get_pianoroll_from_barwise_intervals: c is what
\* interval2semitone returned for it and base the pitch it is applied to,
\* last_known_origin if the origin of the bar is unknown and origin if not
RECURSIVE barwise_decode_loop(_, _, _, _, _, _, _, _, _, _)
barwise_decode_note(intervals, i, pixels_per_bar, c, base, origin, last_known_origin, origin_is_unkown, pianoroll, velocity, written_) ==
    IF out_of_range(base + c.ret)
    THEN [pianoroll |-> pianoroll, err |-> "IndexError", written |-> written_]
    ELSE barwise_decode_loop(intervals, i + 1, pixels_per_bar, c.self,
             IF origin_is_unkown THEN base + c.ret ELSE origin,
             IF origin_is_unkown THEN base + c.ret ELSE last_known_origin,
             FALSE,
             set_cell(pianoroll, i, base + c.ret, velocity), velocity,
             Append(written_, <<i, base + c.ret>>))

\* row i of get_pianoroll_from_barwise_intervals: r is what set_specs_list
\* returned for it
barwise_decode_row(intervals, i, pixels_per_bar, r, origin, last_known_origin, origin_is_unkown, pianoroll, velocity, written_) ==
    IF r.err # "none"
    THEN [pianoroll |-> pianoroll, err |-> r.err, written |-> written_]
    ELSE IF is_silence(r.self)
    THEN barwise_decode_loop(intervals, i + 1, pixels_per_bar, r.self, origin,
                             last_known_origin, origin_is_unkown, pianoroll, velocity,
                             written_)
    ELSE barwise_decode_note(intervals, i, pixels_per_bar,
                             interval2semitone(r.self, None),
                             IF origin_is_unkown THEN last_known_origin ELSE origin,
                             origin, last_known_origin, origin_is_unkown,
                             pianoroll, velocity, written_)

\* the for loop of get_pianoroll_from_barwise_intervals, from index i on:
\* the pianoroll, the exception raised and the cells assigned so far
barwise_decode_loop(intervals, i, pixels_per_bar, curser, origin, last_known_origin, origin_is_unkown, pianoroll, velocity, written_) ==
    IF i >= Len(intervals)
    THEN [pianoroll |-> pianoroll, err |-> "none", written |-> written_]
    ELSE barwise_decode_row(intervals, i, pixels_per_bar,
                            set_specs_list(curser, PyList(intervals[i + 1])),
                            origin, last_known_origin,
                            new_bar(i, pixels_per_bar, origin_is_unkown),
                            pianoroll, velocity, written_)

\* what get_pianoroll_from_barwise_intervals returns when its loop ends
barwise_decoded(s1, l) ==
    [self |-> [s1 EXCEPT !.pianoroll = Some(ndarray(NOTES_IN_MIDI, l.pianoroll))],
     ret |-> IF l.err = "none" THEN ndarray(NOTES_IN_MIDI, l.pianoroll) ELSE NoArray,
     err |-> l.err,
     written |-> l.written]

\* get_pianoroll_from_barwise_intervals once self.intervals is set and
\* origin, velocity and pixels_per_bar have their defaults
barwise_decode(s1, origin, velocity, leading_silence, pixels_per_bar) ==
    IF IsNone(s1.intervals)
    THEN [self |-> s1, ret |-> NoArray, err |-> "TypeError", written |-> <<>>]
    ELSE IF s1.intervals[1].w # feature_dimensions
    THEN [self |-> s1, ret |-> NoArray, err |-> "IndexError", written |-> <<>>]
    ELSE IF leading_silence >= Len(s1.intervals[1].rows)
    THEN [self |-> s1, ret |-> NoArray, err |-> "ValueError", written |-> <<>>]
    ELSE IF out_of_range(origin) \/ out_of_range(velocity)
    THEN [self |-> s1, ret |-> NoArray, err |-> "IndexError", written |-> <<>>]
    ELSE barwise_decoded(s1,
             barwise_decode_loop(s1.intervals[1].rows, leading_silence, pixels_per_bar,
                 interval_init, origin, origin, TRUE,
                 set_cell(zeros(Len(s1.intervals[1].rows), NOTES_IN_MIDI).rows,
                          leading_silence, origin, velocity),
                 velocity, << <<leading_silence, origin>> >>))

\* get_pianoroll_from_barwise_intervals: the object after the call, the
\* array returned, the exception raised and the cells assigned;
\* origin, velocity and pixels_per_bar are None or Some(int),
\* leading_silence >= 0
get_pianoroll_from_barwise_intervals(self, intervals, origin, velocity, leading_silence, pixels_per_bar) ==
    IF (IF IsNone(pixels_per_bar) THEN self.pixels_per_bar ELSE pixels_per_bar[1]) < 1
    THEN [self |-> self, ret |-> NoArray, err |-> "ValueError", written |-> <<>>]
    ELSE barwise_decode(
             IF ~IsNone(intervals) THEN [self EXCEPT !.intervals = intervals] ELSE self,
             IF IsNone(origin) THEN self.origin ELSE origin[1],
             IF IsNone(velocity) THEN self.default_velocity ELSE velocity[1],
             leading_silence,
             IF IsNone(pixels_per_bar) THEN self.pixels_per_bar ELSE pixels_per_bar[1])

\* the cells of a two-dimensional array in row-major order, as np.reshape
\* reads them
ravel(rows, w) == [k \in 1..(Len(rows) * w) |-> rows[((k - 1) \div w) + 1][((k - 1) % w) + 1]]

\* mutant: np.reshape fills the chunks in column-major order
reshape3_F(flat, a, b, c) ==
    [k \in 1..a |-> [j \in 1..b |-> [m \in 1..c |->
        flat[(k - 1) + (j - 1) * a + (m - 1) * a * b + 1]]]]

\* np.reshape(flat, (a, b, c)): the last index runs fastest
reshape3(flat, a, b, c) ==
    [k \in 1..a |-> [j \in 1..b |-> [m \in 1..c |->
        flat[((k - 1) * b + (j - 1)) * c + (m - 1) + 1]]]]

\* np.reshape(flat, (a, b))
reshape2(flat, a, b) ==
    [k \in 1..a |-> [m \in 1..b |-> flat[(k - 1) * b + (m - 1) + 1]]]

\* mutant: the rows after the last whole chunk are dropped
chunk_truncate(intervals, pixels_per_chunk) ==
    IF IsNone(intervals)
    THEN [ret |-> NoChunks, err |-> "TypeError"]
    ELSE IF intervals[1].w # feature_dimensions
    THEN [ret |-> NoChunks, err |-> "IndexError"]
    ELSE IF pixels_per_chunk < 1
    THEN [ret |-> NoChunks, err |-> "ValueError"]
    ELSE [ret |-> ndarray3(pixels_per_chunk, intervals[1].w,
                      reshape3(ravel(intervals[1].rows, intervals[1].w),
                               Len(intervals[1].rows) \div pixels_per_chunk,
                               pixels_per_chunk, intervals[1].w)),
          err |-> "none"]

\* chunk_sequence_of_intervals once intervals and pixels_per_chunk have
\* their defaults: the array returned and the exception raised
chunk(intervals, pixels_per_chunk) ==
    IF IsNone(intervals)
    THEN [ret |-> NoChunks, err |-> "TypeError"]
    ELSE IF intervals[1].w # feature_dimensions
    THEN [ret |-> NoChunks, err |-> "IndexError"]
    ELSE IF pixels_per_chunk < 1
    THEN [ret |-> NoChunks, err |-> "ValueError"]
    ELSE IF (Len(intervals[1].rows) \div pixels_per_chunk) * pixels_per_chunk
                # Len(intervals[1].rows)
    THEN \* np.reshape: the new shape has another number of cells
         [ret |-> NoChunks, err |-> "ValueError"]
    ELSE [ret |-> ndarray3(pixels_per_chunk, intervals[1].w,
                      reshape3(ravel(intervals[1].rows, intervals[1].w),
                               Len(intervals[1].rows) \div pixels_per_chunk,
                               pixels_per_chunk, intervals[1].w)),
          err |-> "none"]

\* mutant: the cached intervals are not looked at
chunk_sequence_of_intervals_nocache(self, intervals, pixels_per_chunk) ==
    chunk(intervals,
          IF IsNone(pixels_per_chunk) THEN self.pixels_per_bar ELSE pixels_per_chunk[1])

\* chunk_sequence_of_intervals: the array returned and the exception
\* raised; self is left as it is
chunk_sequence_of_intervals(self, intervals, pixels_per_chunk) ==
    chunk(IF IsNone(intervals) THEN self.intervals ELSE intervals,
          IF IsNone(pixels_per_chunk) THEN self.pixels_per_bar ELSE pixels_per_chunk[1])

\* the cells of a three-dimensional array in row-major order
ravel3(chunks, p, w) ==
    [k \in 1..(Len(chunks) * p * w) |->
        chunks[((k - 1) \div (p * w)) + 1][(((k - 1) \div w) % p) + 1][((k - 1) % w) + 1]]

\* what merge_chunked_intervals stores and returns
merged(chunked_intervals) ==
    ndarray(chunked_intervals.w,
            reshape2(ravel3(chunked_intervals.chunks, chunked_intervals.p,
                            chunked_intervals.w),
                     Len(chunked_intervals.chunks) * chunked_intervals.p,
                     chunked_intervals.w))

\* merge_chunked_intervals: the object after the call and the array returned
merge_chunked_intervals(self, chunked_intervals) ==
    [self |-> [self EXCEPT !.intervals = Some(merged(chunked_intervals))],
     ret |-> merged(chunked_intervals), err |-> "none"]

\* the for loop of get_RLE_from_intervals, from index i on: the RLE array
\* and the index of its last run
RECURSIVE RLE_loop(_, _, _, _)
RLE_loop(intervals, i, index, RLE) ==
    IF i >= Len(intervals) THEN [RLE |-> RLE, index |-> index]
    ELSE IF intervals[i + 1] = intervals[i]
    THEN RLE_loop(intervals, i + 1, index,
                  [RLE EXCEPT ![index + 1][Len(RLE[index + 1])] = @ + 1])
    ELSE RLE_loop(intervals, i + 1, index + 1,
                  [RLE EXCEPT ![index + 2] =
                      [k \in 1..Len(@) |-> IF k < Len(@) THEN intervals[i + 1][k] ELSE 1]])

\* mutant: a run is closed at every row, repeated or not
get_RLE_from_intervals_norun(self, intervals) ==
    LET s1 == IF ~IsNone(intervals) THEN [self EXCEPT !.intervals = intervals] ELSE self
    IN  IF IsNone(s1.intervals)
        THEN [self |-> s1, ret |-> NoArray, err |-> "TypeError"]
        ELSE IF s1.intervals[1].w # feature_dimensions
        THEN [self |-> s1, ret |-> NoArray, err |-> "IndexError"]
        ELSE IF Len(s1.intervals[1].rows) = 0
        THEN [self |-> s1, ret |-> NoArray, err |-> "IndexError"]
        ELSE [self |-> s1,
              ret |-> ndarray(s1.intervals[1].w + 1,
                              [i \in 1..Len(s1.intervals[1].rows) |->
                                  IF i > 1 /\ s1.intervals[1].rows[i] = s1.intervals[1].rows[i - 1]
                                  THEN s1.intervals[1].rows[i] \o <<2>>
                                  ELSE s1.intervals[1].rows[i] \o <<1>>]),
              err |-> "none"]

\* get_RLE_from_intervals: the object after the call, the array returned and
\* the exception raised
get_RLE_from_intervals(self, intervals) ==
    LET s1 == IF ~IsNone(intervals) THEN [self EXCEPT !.intervals = intervals] ELSE self
    IN  IF IsNone(s1.intervals)
        THEN [self |-> s1, ret |-> NoArray, err |-> "TypeError"]
        ELSE IF s1.intervals[1].w # feature_dimensions
        THEN [self |-> s1, ret |-> NoArray, err |-> "IndexError"]
        ELSE
        LET x   == s1.intervals[1]
            RLE == zeros(Len(x.rows), x.w + 1).rows
        IN  IF Len(x.rows) = 0
            THEN \* self.intervals[0] of an empty array
                 [self |-> s1, ret |-> NoArray, err |-> "IndexError"]
            ELSE
            LET first == [RLE EXCEPT ![1] =
                             [k \in 1..(x.w + 1) |-> IF k <= x.w THEN x.rows[1][k] ELSE 1]]
                l     == RLE_loop(x.rows, 1, 0, first)
            IN  [self |-> s1,
                 ret |-> ndarray(x.w + 1, SubSeq(l.RLE, 1, l.index + 1)),
                 err |-> "none"]

\* np.sum(a, axis=0)[j], for a the first n rows
RECURSIVE column_sum(_, _, _)
column_sum(rows, j, n) ==
    IF n = 0 THEN 0 ELSE rows[n][j] + column_sum(rows, j, n - 1)

\* np.repeat(list, repeats): every element repeats times, in place
np_repeat(list, repeats) ==
    [k \in 1..(Len(list) * repeats) |-> list[((k - 1) \div repeats) + 1]]

\* mutant: the repeated row is reshaped in row-major order
reshape_F_rowmajor(flat, r, c) ==
    [j \in 1..r |-> [k \in 1..c |-> flat[(j - 1) * c + (k - 1) + 1]]]

\* np.reshape(flat, (r, c), order="F"): the first index runs fastest
reshape_F(flat, r, c) ==
    [j \in 1..r |-> [k \in 1..c |-> flat[(j - 1) + (k - 1) * r + 1]]]

\* the for loop of get_intervals_from_RLE, from row i on
RECURSIVE unRLE_loop(_, _, _, _)
unRLE_loop(RLE_data, i, index, intervals) ==
    IF i >= Len(RLE_data) THEN intervals
    ELSE
    LET w           == Len(RLE_data[i + 1]) - 1
        run         == RLE_data[i + 1][w + 1]
        replacement == reshape_F(np_repeat(SubSeq(RLE_data[i + 1], 1, w), run), run, w)
    IN  unRLE_loop(RLE_data, i + 1, index + run,
                   [j \in 1..Len(intervals) |->
                       IF j - 1 >= index /\ j - 1 < index + run
                       THEN [k \in 1..w |-> int8(replacement[j - index][k])]
                       ELSE intervals[j]])

\* get_intervals_from_RLE: the object after the call and the array returned
\* (run lengths >= 0)
get_intervals_from_RLE(self, RLE_data) ==
    LET total == column_sum(RLE_data.rows, RLE_data.w, Len(RLE_data.rows))
        out   == ndarray(RLE_data.w - 1,
                         unRLE_loop(RLE_data.rows, 0, 0, zeros(total, RLE_data.w - 1).rows))
    IN  [self |-> [self EXCEPT !.intervals = Some(out)], ret |-> out, err |-> "none"]

\* mutant: the compressed sequences are collected in reverse order
RECURSIVE RLE_bulk_loop(_, _, _, _)
RLE_bulk_step_prepend(bulk_intervals, i, RLE_bulk, r) ==
    IF r.err # "none" THEN [self |-> r.self, ret |-> <<>>, err |-> r.err]
    ELSE RLE_bulk_loop(r.self, bulk_intervals, i + 1, <<r.ret>> \o RLE_bulk)

\* RLE_bulk.append(self.get_RLE_from_intervals(intervals)): r is what
\* get_RLE_from_intervals returned for element i of the batch
RLE_bulk_step(bulk_intervals, i, RLE_bulk, r) ==
    IF r.err # "none" THEN [self |-> r.self, ret |-> <<>>, err |-> r.err]
    ELSE RLE_bulk_loop(r.self, bulk_intervals, i + 1, Append(RLE_bulk, r.ret))

\* the for loop of get_RLE_from_intervals_bulk, from element i on
RLE_bulk_loop(self, bulk_intervals, i, RLE_bulk) ==
    IF i >= Len(bulk_intervals.chunks)
    THEN [self |-> self, ret |-> RLE_bulk, err |-> "none"]
    ELSE RLE_bulk_step(bulk_intervals, i, RLE_bulk,
             get_RLE_from_intervals(self,
                 Some(ndarray(bulk_intervals.w, bulk_intervals.chunks[i + 1]))))

\* get_RLE_from_intervals_bulk: the object after the call, the list of
\* arrays returned and the exception raised
get_RLE_from_intervals_bulk(self, bulk_intervals) ==
    RLE_bulk_loop(self, bulk_intervals, 0, <<>>)

\* bulk_intervals[i] = a for a chunk of p rows of w cells: numpy assigns a
\* of the same shape, repeats a single row or a single cell, and raises
\* ValueError for any other shape
bulk_assignable(p, w, a) ==
    /\ Len(a.rows) = p \/ Len(a.rows) = 1
    /\ a.w = w \/ a.w = 1
bulk_assigned(p, w, a) ==
    [j \in 1..p |-> [k \in 1..w |->
        a.rows[IF Len(a.rows) = 1 THEN 1 ELSE j][IF a.w = 1 THEN 1 ELSE k]]]

\* bulk_intervals[i] = self.get_intervals_from_RLE(RLE_data): r is what
\* get_intervals_from_RLE returned for element i
RECURSIVE unRLE_bulk_loop(_, _, _, _)
unRLE_bulk_step(bulk_RLE_data, i, bulk_intervals, r) ==
    IF ~bulk_assignable(bulk_intervals.p, bulk_intervals.w, r.ret)
    THEN [self |-> r.self, ret |-> NoChunks, err |-> "ValueError"]
    ELSE unRLE_bulk_loop(r.self, bulk_RLE_data, i + 1,
             [bulk_intervals EXCEPT !.chunks[i + 1] =
                 bulk_assigned(bulk_intervals.p, bulk_intervals.w, r.ret)])

\* the for loop of get_intervals_from_RLE_bulk, from element i on
unRLE_bulk_loop(self, bulk_RLE_data, i, bulk_intervals) ==
    IF i >= Len(bulk_RLE_data)
    THEN [self |-> self, ret |-> bulk_intervals, err |-> "none"]
    ELSE unRLE_bulk_step(bulk_RLE_data, i, bulk_intervals,
                         get_intervals_from_RLE(self, bulk_RLE_data[i + 1]))

\* np.zeros((n, tmp.shape[0], tmp.shape[1])) for the array tmp that the
\* first element decompresses to
bulk_zeros(n, tmp) ==
    ndarray3(Len(tmp.rows), tmp.w, [c \in 1..n |-> zeros(Len(tmp.rows), tmp.w).rows])

\* get_intervals_from_RLE_bulk: the object after the call, the array
\* returned (of dtype float64, its cells hold the same numbers) and the
\* exception raised
get_intervals_from_RLE_bulk(self, bulk_RLE_data) ==
    IF Len(bulk_RLE_data) = 0
    THEN \* bulk_RLE_data[0] of an empty list
         [self |-> self, ret |-> NoChunks, err |-> "IndexError"]
    ELSE unRLE_bulk_loop(get_intervals_from_RLE(self, bulk_RLE_data[1]).self,
                         bulk_RLE_data, 0,
                         bulk_zeros(Len(bulk_RLE_data),
                                    get_intervals_from_RLE(self, bulk_RLE_data[1]).ret))

(***************************************************************************)
(* The calls on an interval object.  A call that takes a descriptor is     *)
(* made on a newly constructed object, as interval().interval2semitone(..) *)
(* in tests/test_interval.py; every call resets the record of the other    *)
(* calls' arguments and results.                                           *)
(***************************************************************************)
SemitoneInputs == (0 - MaxSemitone)..MaxSemitone
SpecsInputs ==
    ((0 - Slack)..(7 + Slack)) \X ((-2 - Slack)..(2 + Slack))
        \X ((0 - Slack)..(1 + Slack)) \X ((0 - Slack)..(9 + Slack))

NoDict == [interval_order |-> 0, interval_type |-> 0, octave_offset |-> 0, is_descending |-> 0]
NoOneHot ==
    [interval_order |-> Zeros(7), interval_type |-> Zeros(5),
     is_descending |-> 0, octave_offset |-> 0]

\* the embedder side while no call on an embedder has been made
NoEmbedderCall ==
    /\ pianoroll_arg = None
    /\ intervals_arg = None
    /\ origin_arg = None
    /\ velocity_arg = None
    /\ leading_silence_arg = 0
    /\ notes_ret = <<>>
    /\ intervals_ret = NoArray
    /\ pianoroll_ret = NoArray
    /\ RLE_ret = NoArray
    /\ ref_pianoroll_arg = None
    /\ pixels_arg = 0
    /\ written = <<>>
    /\ chunked_ret = NoChunks
    /\ emb_pre = embedder_init
    /\ bulk_arg = NoChunks
    /\ RLE_bulk_ret = <<>>
    /\ bulk_ret = NoChunks
    /\ pianoroll_first = NoArray

\* interval() and embedder()
Init ==
    /\ op = "new"
    /\ err = "none"
    /\ emb = embedder_init
    /\ NoEmbedderCall
    /\ iv = interval_init
    /\ sem_arg = 0
    /\ specs_arg = get_silence_specs_list
    /\ sem_ret = 0
    /\ dict_ret = NoDict
    /\ specs_ret = get_silence_specs_list
    /\ onehot_ret = NoOneHot

\* interval()
Call_new ==
    /\ op # "new"
    /\ op' = "new"
    /\ err' = "none"
    /\ iv' = interval_init
    /\ sem_arg' = 0
    /\ specs_arg' = get_silence_specs_list
    /\ sem_ret' = 0
    /\ dict_ret' = NoDict
    /\ specs_ret' = get_silence_specs_list
    /\ onehot_ret' = NoOneHot
    /\ UNCHANGED evars

\* semitone2interval(s), on a new object or on the one the last such call left
Call_semitone2interval ==
    \E s \in SemitoneInputs :
        /\ op \in {"new", "semitone2interval"}
        /\ op' = "semitone2interval"
        /\ err' = "none"
        /\ iv' = semitone2interval(iv, Some(s))
        /\ sem_arg' = s
        /\ dict_ret' = specs_dict(iv')
        /\ specs_arg' = get_silence_specs_list
        /\ sem_ret' = 0
        /\ specs_ret' = get_silence_specs_list
        /\ onehot_ret' = NoOneHot
        /\ UNCHANGED evars

\* interval2semitone(d) for the dict d that semitone2interval returned
Call_interval2semitone_of_dict ==
    /\ op = "semitone2interval"
    /\ \E target \in {iv, interval_init} :
        LET r == interval2semitone(target, Some(PyDict(dict_ret)))
        IN  /\ op' = "interval2semitone_of_dict"
            /\ err' = r.err
            /\ iv' = r.self
            /\ sem_ret' = r.ret
    /\ UNCHANGED <<sem_arg, dict_ret, specs_arg, specs_ret, onehot_ret>>
    /\ UNCHANGED evars

\* interval().interval2semitone(specs) for a list specs
Call_interval2semitone ==
    /\ op = "new"
    /\ \E specs \in SpecsInputs :
        LET r == interval2semitone(iv, Some(PyList(specs)))
        IN  /\ op' = "interval2semitone"
            /\ err' = r.err
            /\ iv' = r.self
            /\ sem_ret' = r.ret
            /\ specs_arg' = specs
    /\ UNCHANGED <<sem_arg, dict_ret, specs_ret, onehot_ret>>
    /\ UNCHANGED evars

\* interval().set_specs_list(specs) for a list specs
Call_set_specs_list ==
    /\ op = "new"
    /\ \E specs \in SpecsInputs :
        LET r == set_specs_list(iv, PyList(specs))
        IN  /\ op' = "set_specs_list"
            /\ err' = r.err
            /\ iv' = r.self
            /\ specs_arg' = specs
    /\ UNCHANGED <<sem_arg, sem_ret, dict_ret, specs_ret, onehot_ret>>
    /\ UNCHANGED evars

\* get_specs_list() on the object set_specs_list has filled
Call_get_specs_list ==
    /\ op = "set_specs_list"
    /\ err = "none"
    /\ op' = "get_specs_list"
    /\ specs_ret' = get_specs_list(iv)
    /\ UNCHANGED <<err, iv, sem_arg, specs_arg, sem_ret, dict_ret, onehot_ret>>
    /\ UNCHANGED evars

\* get_one_hot_specs_list() on the object set_specs_list has filled
Call_get_one_hot_specs_list ==
    /\ op = "set_specs_list"
    /\ err = "none"
    /\ LET r == get_one_hot_specs_list(iv)
       IN  /\ op' = "get_one_hot_specs_list"
           /\ err' = r.err
           /\ onehot_ret' = r.ret
    /\ UNCHANGED <<iv, sem_arg, specs_arg, sem_ret, dict_ret, specs_ret>>
    /\ UNCHANGED evars

\* set_one_hot_specs_list(**h) for the dict h that get_one_hot_specs_list
\* returned, on the same object or on a new one
Call_set_one_hot_specs_list ==
    /\ op = "get_one_hot_specs_list"
    /\ err = "none"
    /\ \E target \in {iv, interval_init} :
        LET r == set_one_hot_specs_list(target, onehot_ret.interval_order,
                     onehot_ret.interval_type, onehot_ret.is_descending,
                     onehot_ret.octave_offset)
        IN  /\ op' = "set_one_hot_specs_list"
            /\ err' = r.err
            /\ iv' = r.self
    /\ UNCHANGED <<sem_arg, specs_arg, sem_ret, dict_ret, specs_ret, onehot_ret>>
    /\ UNCHANGED evars

NextInterval ==
    \/ Call_new
    \/ Call_semitone2interval
    \/ Call_interval2semitone_of_dict
    \/ Call_interval2semitone
    \/ Call_set_specs_list
    \/ Call_get_specs_list
    \/ Call_get_one_hot_specs_list
    \/ Call_set_one_hot_specs_list

SpecInterval == Init /\ [][NextInterval]_vars

(***************************************************************************)
(* Properties of the interval class, checked under SpecInterval.           *)
(***************************************************************************)
Abs(x) == IF x < 0 THEN -x ELSE x
Sign(is_descending) == IF is_descending = 1 THEN -1 ELSE 1
\* a list of n zeros with a single 1 at Python index idx
Indicator(n, idx) == [k \in 1..n |-> IF k = idx + 1 THEN 1 ELSE 0]
InRange(specs) ==
    /\ specs[1] \in 0..7
    /\ specs[2] \in -2..2
    /\ specs[3] \in 0..1
    /\ specs[4] \in 0..9

\* the range test_semitone2interval and the specification quote
RoundTripRange == 30

\* C1: for every s in -30..30, interval2semitone applied to the descriptor
\* semitone2interval(s) returned accepts it and returns s.
C1_SemitoneRoundTrip ==
    (op = "interval2semitone_of_dict" /\ Abs(sem_arg) <= RoundTripRange)
        => (err = "none" /\ sem_ret = sem_arg)

C1_Witness ==
    /\ op = "interval2semitone_of_dict"
    /\ sem_arg = 0 - RoundTripRange
    /\ dict_ret.is_descending = 1
    /\ sem_ret = 0 - RoundTripRange

\* the 12-entry Q-table as the specification lists it, remainder 0 first
C4_QTable ==
    << <<1, 0>>, <<2, -1>>, <<2, 1>>, <<3, -1>>, <<3, 1>>, <<4, 0>>,
       <<5, -2>>, <<5, 0>>, <<6, -1>>, <<6, 1>>, <<7, -1>>, <<7, 1>> >>

\* C4: semitone2interval(s) returns, for every integer s, is_descending = 1
\* iff s < 0, octave_offset = |s| div 12 and the Q-table's order and type for
\* |s| mod 12; the order is in 1..7 and the result is never the silence
\* descriptor.
C4_Semitone2Interval ==
    op = "semitone2interval" =>
        /\ err = "none"
        /\ (dict_ret.is_descending = 1) <=> (sem_arg < 0)
        /\ dict_ret.is_descending \in {0, 1}
        /\ dict_ret.octave_offset = Abs(sem_arg) \div 12
        /\ <<dict_ret.interval_order, dict_ret.interval_type>>
               = C4_QTable[(Abs(sem_arg) % 12) + 1]
        /\ dict_ret.interval_order \in 1..7
        /\ ~is_silence(iv)
        /\ dict_ret = specs_dict(iv)

C4_Witness ==
    /\ op = "semitone2interval"
    /\ sem_arg = -126
    /\ dict_ret = [interval_order |-> 5, interval_type |-> -2,
                   octave_offset |-> 10, is_descending |-> 1]

\* the 35 values test_interval2semitone expects, order 1 first, type -2 first
C5_expected ==
    << -1, 0, 0, 0, 1,   0, 1, 2, 2, 3,   2, 3, 4, 4, 5,   4, 5, 5, 5, 6,
       6, 7, 7, 7, 8,   7, 8, 9, 9, 10,   9, 10, 11, 11, 12 >>

C5_base(interval_order, interval_type) ==
    IF interval_order = 0 THEN 0
    ELSE C5_expected[(interval_order - 1) * 5 + (interval_type + 2) + 1]

\* C5: for every descriptor that passes validation interval2semitone returns
\* sign * (base(order, type) + 12 * octave_offset), with sign -1 iff
\* is_descending = 1, base 0 for order 0 and the test's 35-entry table
\* otherwise.
C5_Interval2Semitone ==
    (op = "interval2semitone" /\ err = "none") =>
        sem_ret = Sign(specs_arg[3])
                    * (C5_base(specs_arg[1], specs_arg[2]) + 12 * specs_arg[4])

C5_Witness ==
    /\ op = "interval2semitone"
    /\ err = "none"
    /\ specs_arg = <<6, 1, 1, 9>>
    /\ sem_ret = -117

C6_Case ==
    /\ op = "interval2semitone"
    /\ err = "none"
    /\ specs_arg[1] \in {2, 3, 6, 7}
    /\ specs_arg[2] \in {-2, 0, 2}

\* C6 as stated: an (order, type) pair outside the Q-table's image, for the
\* orders 2, 3, 6 and 7, contributes 0 semitones, so the result is
\* sign * 12 * octave_offset.
C6_FallsThroughToZero ==
    C6_Case => sem_ret = Sign(specs_arg[3]) * 12 * specs_arg[4]

\* what the code tabulates for these pairs: type 0 counts as major, type -2
\* is one semitone below minor, type 2 one semitone above major
C6_major(interval_order) ==
    CASE interval_order = 2 -> 2
      [] interval_order = 3 -> 4
      [] interval_order = 6 -> 9
      [] interval_order = 7 -> 11

C6_base(interval_order, interval_type) ==
    CASE interval_type = 0 -> C6_major(interval_order)
      [] interval_type = 2 -> C6_major(interval_order) + 1
      [] interval_type = -2 -> C6_major(interval_order) - 2

\* C6 amended: for the orders 2, 3, 6 and 7 a type outside the Q-table's
\* image is tabulated too: type 0 contributes the major value (2, 4, 9, 11),
\* type 2 one semitone more and type -2 two semitones less (0, 2, 7, 9), so
\* only order 2 with type -2 contributes 0.
C6_TabulatedOutsideQTable ==
    C6_Case =>
        /\ sem_ret = Sign(specs_arg[3])
                       * (C6_base(specs_arg[1], specs_arg[2]) + 12 * specs_arg[4])
        /\ (C6_base(specs_arg[1], specs_arg[2]) = 0) <=> (specs_arg[1] = 2 /\ specs_arg[2] = -2)

C6_Witness ==
    /\ op = "interval2semitone"
    /\ err = "none"
    /\ specs_arg = <<2, 0, 1, 3>>
    /\ sem_ret = -38

\* C7: set_specs_list, and interval2semitone given specs, raise ValueError iff a
\* field is outside 0..7, -2..2, 0..1, 0..9; a descriptor inside the ranges is
\* stored as given and get_specs_list returns it.
C7_Validation ==
    /\ op \in {"set_specs_list", "interval2semitone"} =>
          /\ (err = "ValueError") <=> ~InRange(specs_arg)
          /\ err \in {"none", "ValueError"}
          /\ err = "none" => get_specs_list(iv) = specs_arg
          /\ err = "ValueError" => get_specs_list(iv) = get_specs_list(interval_init)
    /\ op = "get_specs_list" => specs_ret = specs_arg

C7_Witness ==
    /\ op = "get_specs_list"
    /\ specs_arg = <<7, 2, 1, 9>>
    /\ specs_ret = <<7, 2, 1, 9>>

\* C8: for every order in 1..7, every type, direction and octave_offset in
\* 0..9, get_one_hot_specs_list puts the 1 of the order indicator at index
\* order - 1 and of the type indicator at index type + 2, and
\* set_one_hot_specs_list of its output restores the descriptor.
C8_OneHotRoundTrip ==
    /\ (op = "get_one_hot_specs_list" /\ specs_arg[1] \in 1..7) =>
          /\ err = "none"
          /\ onehot_ret.interval_order = Indicator(7, specs_arg[1] - 1)
          /\ onehot_ret.interval_type = Indicator(5, specs_arg[2] + 2)
          /\ onehot_ret.is_descending = specs_arg[3]
          /\ onehot_ret.octave_offset = specs_arg[4]
    /\ (op = "set_one_hot_specs_list" /\ specs_arg[1] \in 1..7) =>
          /\ err = "none"
          /\ get_specs_list(iv) = specs_arg

C8_Witness ==
    /\ op = "set_one_hot_specs_list"
    /\ specs_arg = <<7, -2, 1, 9>>
    /\ onehot_ret.interval_order = <<0, 0, 0, 0, 0, 0, 1>>
    /\ iv.semitones = 0
    /\ get_specs_list(iv) = <<7, -2, 1, 9>>

\* C9: the one-hot conversion is inverse-exact for silence: from [0,0,0,0],
\* set_one_hot_specs_list of the output of get_one_hot_specs_list yields
\* [0,0,0,0] again, and is_silence stays true.
C9_SilenceOneHotRoundTrip ==
    (op = "set_one_hot_specs_list" /\ specs_arg = get_silence_specs_list) =>
        /\ err = "none"
        /\ get_specs_list(iv) = get_silence_specs_list
        /\ is_silence(iv)

(***************************************************************************)
(* The calls on an embedder object.  An encoder is called on a newly       *)
(* constructed embedder; a decoder is called on the same object with what  *)
(* the encoder returned.                                                   *)
(***************************************************************************)
PitchInputs == {0, 5, 66, 127}
VelocityInputs == {1, 100}
\* a step of a melody: a pitch, or -1 for a silent step
Silent == 0 - 1
MelodyInputs == UNION {[1..n -> PitchInputs \cup {Silent}] : n \in 0..MaxSteps}
\* the pianoroll with one note of velocity v at every voiced step of melody
MelodyRoll(melody, v) ==
    ndarray(NOTES_IN_MIDI,
            [i \in 1..Len(melody) |->
                [j \in 1..NOTES_IN_MIDI |-> IF j = melody[i] + 1 THEN v ELSE 0]])

\* the rows with any of three lanes silent or sounding at any velocity
ChordLanes == {0, 5, 127}
ChordInputs == [ChordLanes -> {0} \cup VelocityInputs]
ChordRoll(chords) ==
    ndarray(NOTES_IN_MIDI,
            [i \in 1..Len(chords) |->
                [j \in 1..NOTES_IN_MIDI |->
                    IF (j - 1) \in ChordLanes THEN chords[i][j - 1] ELSE 0]])
ChordRollInputs ==
    {ChordRoll(c) : c \in UNION {[1..n -> ChordInputs] : n \in 0..MaxChordSteps}}

\* the origin and velocity a decoder is called with: every pitch with every
\* velocity, and each of the two one step outside 0..127 on either side
DecoderInputs ==
    (PitchInputs \X VelocityInputs)
        \cup ({0 - 1, 128} \X {100}) \cup ({66} \X {0 - 1, 128})

DescriptorInputs == {<<0, 0, 0, 0>>, <<2, 1, 0, 0>>, <<2, 1, 1, 0>>, <<7, 2, 1, 9>>}
IntervalsInputs ==
    {ndarray(feature_dimensions, x) :
        x \in UNION {[1..n -> DescriptorInputs] : n \in 0..MaxRows}}

\* embedder()
Call_new_embedder ==
    /\ op # "new"
    /\ op' = "new"
    /\ err' = "none"
    /\ emb' = embedder_init
    /\ pianoroll_arg' = None
    /\ intervals_arg' = None
    /\ origin_arg' = None
    /\ velocity_arg' = None
    /\ leading_silence_arg' = 0
    /\ notes_ret' = <<>>
    /\ intervals_ret' = NoArray
    /\ pianoroll_ret' = NoArray
    /\ RLE_ret' = NoArray
    /\ ref_pianoroll_arg' = None
    /\ pixels_arg' = 0
    /\ written' = <<>>
    /\ chunked_ret' = NoChunks
    /\ emb_pre' = embedder_init
    /\ bulk_arg' = NoChunks
    /\ RLE_bulk_ret' = <<>>
    /\ bulk_ret' = NoChunks
    /\ pianoroll_first' = NoArray
    /\ UNCHANGED ivars

\* emb.pianoroll = P
Set_pianoroll ==
    /\ op = "new"
    /\ \E P \in ChordRollInputs :
        /\ emb' = [emb EXCEPT !.pianoroll = Some(P)]
        /\ pianoroll_arg' = Some(P)
    /\ op' = "set_pianoroll"
    /\ UNCHANGED <<err, ivars, cvars, xvars, written, intervals_arg, origin_arg, velocity_arg,
                   leading_silence_arg, notes_ret, intervals_ret, pianoroll_ret, RLE_ret>>

\* extract_highest_pitch_notes_from_pianoroll()
Call_extract_highest_pitch_notes_from_pianoroll ==
    /\ op \in {"new", "set_pianoroll"}
    /\ LET r == extract_highest_pitch_notes_from_pianoroll(emb)
       IN  /\ err' = r.err
           /\ notes_ret' = r.ret
    /\ op' = "extract_highest_pitch_notes_from_pianoroll"
    /\ UNCHANGED <<ivars, cvars, xvars, written, emb, pianoroll_arg, intervals_arg, origin_arg, velocity_arg,
                   leading_silence_arg, intervals_ret, pianoroll_ret, RLE_ret>>

NextExtract ==
    \/ Call_new_embedder
    \/ Set_pianoroll
    \/ Call_extract_highest_pitch_notes_from_pianoroll

SpecExtract == Init /\ [][NextExtract]_vars

\* get_melodic_intervals_from_pianoroll(P)
Call_get_melodic_intervals_from_pianoroll ==
    /\ op = "new"
    /\ \E melody \in MelodyInputs, v \in VelocityInputs :
        LET r == get_melodic_intervals_from_pianoroll(emb, Some(MelodyRoll(melody, v)))
        IN  /\ emb' = r.self
            /\ err' = r.err
            /\ intervals_ret' = r.ret
            /\ pianoroll_arg' = Some(MelodyRoll(melody, v))
    /\ op' = "get_melodic_intervals_from_pianoroll"
    /\ UNCHANGED <<ivars, cvars, xvars, written, intervals_arg, origin_arg, velocity_arg, leading_silence_arg,
                   notes_ret, pianoroll_ret, RLE_ret>>

\* get_pianoroll_from_melodic_intervals(intervals, origin, velocity,
\* leading_silence) for the intervals get_melodic_intervals_from_pianoroll
\* returned
Call_get_pianoroll_from_melodic_intervals ==
    /\ op = "get_melodic_intervals_from_pianoroll"
    /\ err = "none"
    /\ \E a \in DecoderInputs, leading_silence \in 0..MaxLead :
        LET r == get_pianoroll_from_melodic_intervals(emb, Some(intervals_ret),
                     Some(a[1]), Some(a[2]), leading_silence)
        IN  /\ emb' = r.self
            /\ err' = r.err
            /\ pianoroll_ret' = r.ret
            /\ written' = r.written
            /\ intervals_arg' = Some(intervals_ret)
            /\ origin_arg' = Some(a[1])
            /\ velocity_arg' = Some(a[2])
            /\ leading_silence_arg' = leading_silence
    /\ op' = "get_pianoroll_from_melodic_intervals"
    /\ UNCHANGED <<ivars, cvars, xvars, pianoroll_arg, notes_ret, intervals_ret, RLE_ret>>

NextMelodic ==
    \/ Call_new_embedder
    \/ Call_get_melodic_intervals_from_pianoroll
    \/ Call_get_pianoroll_from_melodic_intervals

SpecMelodic == Init /\ [][NextMelodic]_vars

\* get_RLE_from_intervals(x)
Call_get_RLE_from_intervals ==
    /\ op = "new"
    /\ \E x \in IntervalsInputs :
        LET r == get_RLE_from_intervals(emb, Some(x))
        IN  /\ emb' = r.self
            /\ err' = r.err
            /\ RLE_ret' = r.ret
            /\ intervals_arg' = Some(x)
    /\ op' = "get_RLE_from_intervals"
    /\ UNCHANGED <<ivars, cvars, xvars, written, pianoroll_arg, origin_arg, velocity_arg, leading_silence_arg,
                   notes_ret, intervals_ret, pianoroll_ret>>

\* get_intervals_from_RLE(RLE) for the array get_RLE_from_intervals returned
Call_get_intervals_from_RLE ==
    /\ op = "get_RLE_from_intervals"
    /\ err = "none"
    /\ LET r == get_intervals_from_RLE(emb, RLE_ret)
       IN  /\ emb' = r.self
           /\ err' = r.err
           /\ intervals_ret' = r.ret
    /\ op' = "get_intervals_from_RLE"
    /\ UNCHANGED <<ivars, cvars, xvars, written, pianoroll_arg, intervals_arg, origin_arg, velocity_arg,
                   leading_silence_arg, notes_ret, pianoroll_ret, RLE_ret>>

NextRLE ==
    \/ Call_new_embedder
    \/ Call_get_RLE_from_intervals
    \/ Call_get_intervals_from_RLE

SpecRLE == Init /\ [][NextRLE]_vars

\* what an encoder call leaves in the variables: r is what it returned
Encoder_returns(r) ==
    /\ emb' = r.self
    /\ err' = r.err
    /\ intervals_ret' = r.ret

\* what a decoder call leaves in the variables: r is what it returned
Decoder_returns(r) ==
    /\ emb' = r.self
    /\ err' = r.err
    /\ pianoroll_ret' = r.ret
    /\ written' = r.written

\* the steps of the pianorolls of the harmonic calls: the set of active lanes
SubjectRows == {{}, {0}, {66}, {5, 127}}
RefRows == {{}, {0}, {66}, {5, 127}}
\* the pianoroll with velocity v in the lanes of every step
LaneRoll(lanes, v) ==
    ndarray(NOTES_IN_MIDI,
            [i \in 1..Len(lanes) |->
                [j \in 1..NOTES_IN_MIDI |-> IF (j - 1) \in lanes[i] THEN v ELSE 0]])

\* get_harmonic_intervals_from_pianoroll(ref_pianoroll, pianoroll)
Call_get_harmonic_intervals_from_pianoroll ==
    /\ op = "new"
    /\ \E subject \in UNION {[1..n -> SubjectRows] : n \in 0..MaxHarmonicSteps},
          ref \in UNION {[1..n -> RefRows] : n \in 0..MaxHarmonicSteps},
          v \in VelocityInputs :
        /\ Encoder_returns(get_harmonic_intervals_from_pianoroll(
               emb, LaneRoll(ref, v), Some(LaneRoll(subject, v))))
        /\ pianoroll_arg' = Some(LaneRoll(subject, v))
        /\ ref_pianoroll_arg' = Some(LaneRoll(ref, v))
    /\ op' = "get_harmonic_intervals_from_pianoroll"
    /\ UNCHANGED <<ivars, cvars, intervals_arg, origin_arg, velocity_arg, leading_silence_arg,
                   notes_ret, pianoroll_ret, RLE_ret, pixels_arg, written, chunked_ret>>

\* get_pianoroll_from_harmonic_intervals(ref_pianoroll, intervals, velocity)
\* for the reference get_harmonic_intervals_from_pianoroll was given and the
\* intervals it returned
Call_get_pianoroll_from_harmonic_intervals ==
    /\ op = "get_harmonic_intervals_from_pianoroll"
    /\ err = "none"
    /\ \E velocity \in VelocityInputs \cup {0 - 1, 128} :
        /\ Decoder_returns(get_pianoroll_from_harmonic_intervals(
               emb, ref_pianoroll_arg, Some(intervals_ret), Some(velocity)))
        /\ velocity_arg' = Some(velocity)
    /\ intervals_arg' = Some(intervals_ret)
    /\ op' = "get_pianoroll_from_harmonic_intervals"
    /\ UNCHANGED <<ivars, cvars, pianoroll_arg, ref_pianoroll_arg, origin_arg,
                   leading_silence_arg, notes_ret, intervals_ret, RLE_ret, pixels_arg,
                   chunked_ret>>

NextHarmonic ==
    \/ Call_new_embedder
    \/ Call_get_harmonic_intervals_from_pianoroll
    \/ Call_get_pianoroll_from_harmonic_intervals

SpecHarmonic == Init /\ [][NextHarmonic]_vars

\* the melodies of the barwise calls
BarMelodyInputs == UNION {[1..n -> {Silent, 5, 66}] : n \in 0..MaxBarSteps}
\* the origins a barwise decoder is called with, and one step outside
\* 0..127 on either side
BarOriginInputs == {0 - 1, 5, 66, 127, 128}

\* get_barwise_intervals_from_pianoroll(P, pixels_per_bar)
Call_get_barwise_intervals_from_pianoroll ==
    /\ op = "new"
    /\ \E melody \in BarMelodyInputs, v \in VelocityInputs, pixels_per_bar \in 0..MaxPixels :
        /\ Encoder_returns(get_barwise_intervals_from_pianoroll(
               emb, Some(MelodyRoll(melody, v)), Some(pixels_per_bar)))
        /\ pianoroll_arg' = Some(MelodyRoll(melody, v))
        /\ velocity_arg' = Some(v)
        /\ pixels_arg' = pixels_per_bar
    /\ op' = "get_barwise_intervals_from_pianoroll"
    /\ UNCHANGED <<ivars, cvars, intervals_arg, origin_arg, leading_silence_arg,
                   notes_ret, pianoroll_ret, RLE_ret, ref_pianoroll_arg, written,
                   chunked_ret>>

\* get_pianoroll_from_barwise_intervals(intervals, origin, velocity,
\* leading_silence, pixels_per_bar) for the intervals
\* get_barwise_intervals_from_pianoroll returned, with its pixels_per_bar and
\* the velocity of its pianoroll, or with the velocity one step outside
\* 0..127
Call_get_pianoroll_from_barwise_intervals ==
    /\ op = "get_barwise_intervals_from_pianoroll"
    /\ err = "none"
    /\ \E a \in (BarOriginInputs \X {velocity_arg[1]}) \cup ({66} \X {0 - 1, 128}),
          leading_silence \in 0..MaxLead :
        /\ Decoder_returns(get_pianoroll_from_barwise_intervals(
               emb, Some(intervals_ret), Some(a[1]), Some(a[2]), leading_silence,
               Some(pixels_arg)))
        /\ origin_arg' = Some(a[1])
        /\ velocity_arg' = Some(a[2])
        /\ leading_silence_arg' = leading_silence
    /\ intervals_arg' = Some(intervals_ret)
    /\ op' = "get_pianoroll_from_barwise_intervals"
    /\ UNCHANGED <<ivars, cvars, pianoroll_arg, ref_pianoroll_arg, notes_ret, intervals_ret,
                   RLE_ret, pixels_arg, chunked_ret>>

NextBarwise ==
    \/ Call_new_embedder
    \/ Call_get_barwise_intervals_from_pianoroll
    \/ Call_get_pianoroll_from_barwise_intervals

SpecBarwise == Init /\ [][NextBarwise]_vars

\* chunk_sequence_of_intervals(x, pixels_per_chunk)
Call_chunk_sequence_of_intervals ==
    /\ op = "new"
    /\ \E x \in IntervalsInputs, pixels_per_chunk \in 0..MaxPixels :
        LET r == chunk_sequence_of_intervals(emb, Some(x), Some(pixels_per_chunk))
        IN  /\ err' = r.err
            /\ chunked_ret' = r.ret
            /\ intervals_arg' = Some(x)
            /\ pixels_arg' = pixels_per_chunk
    /\ op' = "chunk_sequence_of_intervals"
    /\ UNCHANGED <<ivars, cvars, emb, pianoroll_arg, origin_arg, velocity_arg,
                   leading_silence_arg, notes_ret, intervals_ret, pianoroll_ret, RLE_ret,
                   ref_pianoroll_arg, written>>

\* merge_chunked_intervals(chunks) for the array chunk_sequence_of_intervals
\* returned
Call_merge_chunked_intervals ==
    /\ op = "chunk_sequence_of_intervals"
    /\ err = "none"
    /\ Encoder_returns(merge_chunked_intervals(emb, chunked_ret))
    /\ op' = "merge_chunked_intervals"
    /\ UNCHANGED <<ivars, cvars, pianoroll_arg, intervals_arg, origin_arg, velocity_arg,
                   leading_silence_arg, notes_ret, pianoroll_ret, RLE_ret,
                   ref_pianoroll_arg, pixels_arg, written, chunked_ret>>

NextChunk ==
    \/ Call_new_embedder
    \/ Call_chunk_sequence_of_intervals
    \/ Call_merge_chunked_intervals

SpecChunk == Init /\ [][NextChunk]_vars

\* the batches of the bulk calls: up to MaxBatch sequences of up to
\* MaxBulkRows rows each, all of the same length
BulkDescriptorInputs == {<<0, 0, 0, 0>>, <<2, 1, 0, 0>>}
BulkInputs ==
    UNION {{ndarray3(p, feature_dimensions, c) :
               c \in [1..n -> [1..p -> BulkDescriptorInputs]]} :
           <<n, p>> \in (0..MaxBatch) \X (0..MaxBulkRows)}

\* get_RLE_from_intervals_bulk(batch)
Call_get_RLE_from_intervals_bulk ==
    /\ op = "new"
    /\ \E batch \in BulkInputs :
        LET r == get_RLE_from_intervals_bulk(emb, batch)
        IN  /\ emb' = r.self
            /\ err' = r.err
            /\ RLE_bulk_ret' = r.ret
            /\ bulk_arg' = batch
    /\ op' = "get_RLE_from_intervals_bulk"
    /\ UNCHANGED <<ivars, xvars, written, pianoroll_arg, intervals_arg, origin_arg,
                   velocity_arg, leading_silence_arg, notes_ret, intervals_ret,
                   pianoroll_ret, RLE_ret, emb_pre, bulk_ret, pianoroll_first>>

\* get_intervals_from_RLE_bulk(list) for the list
\* get_RLE_from_intervals_bulk returned
Call_get_intervals_from_RLE_bulk ==
    /\ op = "get_RLE_from_intervals_bulk"
    /\ err = "none"
    /\ LET r == get_intervals_from_RLE_bulk(emb, RLE_bulk_ret)
       IN  /\ emb' = r.self
           /\ err' = r.err
           /\ bulk_ret' = r.ret
    /\ op' = "get_intervals_from_RLE_bulk"
    /\ UNCHANGED <<ivars, xvars, written, pianoroll_arg, intervals_arg, origin_arg,
                   velocity_arg, leading_silence_arg, notes_ret, intervals_ret,
                   pianoroll_ret, RLE_ret, emb_pre, bulk_arg, RLE_bulk_ret,
                   pianoroll_first>>

NextBulk ==
    \/ Call_new_embedder
    \/ Call_get_RLE_from_intervals_bulk
    \/ Call_get_intervals_from_RLE_bulk

SpecBulk == Init /\ [][NextBulk]_vars

\* the grids the calls on cached operands are given: a pianoroll and an
\* interval sequence that are valid, and arrays whose second dimension is
\* one less or one more than it must be
OperandRoll == MelodyRoll(<<5, 66>>, 100)
CachedRoll == MelodyRoll(<<66, 5, 66>>, 100)
OperandIntervals ==
    ndarray(feature_dimensions, << <<0, 0, 0, 0>>, <<2, -1, 0, 5>>, <<2, -1, 1, 5>> >>)
CachedIntervals ==
    ndarray(feature_dimensions, << <<0, 0, 0, 0>>, <<1, 0, 0, 0>>, <<2, -1, 0, 5>> >>)
PianorollOperands ==
    {None, Some(OperandRoll), Some(zeros(1, NOTES_IN_MIDI - 1)),
     Some(zeros(1, NOTES_IN_MIDI + 1))}
IntervalsOperands ==
    {None, Some(OperandIntervals), Some(zeros(1, feature_dimensions - 1)),
     Some(zeros(1, feature_dimensions + 1))}
ReferenceOperands == {OperandRoll, zeros(1, NOTES_IN_MIDI + 1)}
PixelsOperands == {0, 1, 3}

\* emb.pianoroll = ...; emb.intervals = ...
Set_cache ==
    /\ op = "new"
    /\ \E P \in {None, Some(CachedRoll), Some(zeros(1, NOTES_IN_MIDI + 1))},
          x \in {None, Some(CachedIntervals), Some(zeros(1, feature_dimensions - 1))} :
        emb' = [emb EXCEPT !.pianoroll = P, !.intervals = x]
    /\ op' = "set_cache"
    /\ UNCHANGED <<err, ivars, cvars, xvars, written, pianoroll_arg, intervals_arg,
                   origin_arg, velocity_arg, leading_silence_arg, notes_ret,
                   intervals_ret, pianoroll_ret, RLE_ret>>

\* extract_highest_pitch_notes_from_pianoroll() on the cached pianoroll
Operand_extract_highest_pitch_notes_from_pianoroll ==
    /\ op \in {"new", "set_cache"}
    /\ LET r == extract_highest_pitch_notes_from_pianoroll(emb)
       IN  /\ err' = r.err
           /\ notes_ret' = r.ret
    /\ emb_pre' = emb
    /\ op' = "extract_highest_pitch_notes_from_pianoroll"
    /\ UNCHANGED <<ivars, emb, pianoroll_arg, intervals_arg, origin_arg, velocity_arg,
                   leading_silence_arg, intervals_ret, pianoroll_ret, RLE_ret,
                   ref_pianoroll_arg, pixels_arg, written, chunked_ret, bulk_arg,
                   RLE_bulk_ret, bulk_ret, pianoroll_first>>

\* get_melodic_intervals_from_pianoroll(P), P given or omitted
Operand_get_melodic_intervals_from_pianoroll ==
    /\ op \in {"new", "set_cache"}
    /\ \E P \in PianorollOperands :
        LET r == get_melodic_intervals_from_pianoroll(emb, P)
        IN  /\ err' = r.err
            /\ emb' = r.self
            /\ intervals_ret' = r.ret
            /\ pianoroll_arg' = P
    /\ emb_pre' = emb
    /\ op' = "get_melodic_intervals_from_pianoroll"
    /\ UNCHANGED <<ivars, intervals_arg, origin_arg, velocity_arg, leading_silence_arg,
                   notes_ret, pianoroll_ret, RLE_ret, ref_pianoroll_arg, pixels_arg,
                   written, chunked_ret, bulk_arg, RLE_bulk_ret, bulk_ret,
                   pianoroll_first>>

\* get_harmonic_intervals_from_pianoroll(ref, P), P given or omitted
Operand_get_harmonic_intervals_from_pianoroll ==
    /\ op \in {"new", "set_cache"}
    /\ \E P \in PianorollOperands, ref \in ReferenceOperands :
        LET r == get_harmonic_intervals_from_pianoroll(emb, ref, P)
        IN  /\ err' = r.err
            /\ emb' = r.self
            /\ intervals_ret' = r.ret
            /\ pianoroll_arg' = P
            /\ ref_pianoroll_arg' = Some(ref)
    /\ emb_pre' = emb
    /\ op' = "get_harmonic_intervals_from_pianoroll"
    /\ UNCHANGED <<ivars, intervals_arg, origin_arg, velocity_arg, leading_silence_arg,
                   notes_ret, pianoroll_ret, RLE_ret, pixels_arg, written, chunked_ret,
                   bulk_arg, RLE_bulk_ret, bulk_ret, pianoroll_first>>

\* get_barwise_intervals_from_pianoroll(P, pixels_per_bar), P given or omitted
Operand_get_barwise_intervals_from_pianoroll ==
    /\ op \in {"new", "set_cache"}
    /\ \E P \in PianorollOperands, pixels_per_bar \in PixelsOperands :
        LET r == get_barwise_intervals_from_pianoroll(emb, P, Some(pixels_per_bar))
        IN  /\ err' = r.err
            /\ emb' = r.self
            /\ intervals_ret' = r.ret
            /\ pianoroll_arg' = P
            /\ pixels_arg' = pixels_per_bar
    /\ emb_pre' = emb
    /\ op' = "get_barwise_intervals_from_pianoroll"
    /\ UNCHANGED <<ivars, intervals_arg, origin_arg, velocity_arg, leading_silence_arg,
                   notes_ret, pianoroll_ret, RLE_ret, ref_pianoroll_arg, written,
                   chunked_ret, bulk_arg, RLE_bulk_ret, bulk_ret, pianoroll_first>>

\* get_pianoroll_from_melodic_intervals(x, origin, velocity), x given or omitted
Operand_get_pianoroll_from_melodic_intervals ==
    /\ op \in {"new", "set_cache"}
    /\ \E x \in IntervalsOperands :
        LET r == get_pianoroll_from_melodic_intervals(emb, x, Some(5), Some(100), 0)
        IN  /\ err' = r.err
            /\ emb' = r.self
            /\ pianoroll_ret' = r.ret
            /\ written' = r.written
            /\ intervals_arg' = x
            /\ origin_arg' = Some(5)
            /\ velocity_arg' = Some(100)
    /\ emb_pre' = emb
    /\ op' = "get_pianoroll_from_melodic_intervals"
    /\ UNCHANGED <<ivars, pianoroll_arg, leading_silence_arg, notes_ret, intervals_ret,
                   RLE_ret, ref_pianoroll_arg, pixels_arg, chunked_ret, bulk_arg,
                   RLE_bulk_ret, bulk_ret, pianoroll_first>>

\* get_pianoroll_from_harmonic_intervals(P, x, velocity), P and x given or omitted
Operand_get_pianoroll_from_harmonic_intervals ==
    /\ op \in {"new", "set_cache"}
    /\ \E P \in PianorollOperands, x \in IntervalsOperands :
        LET r == get_pianoroll_from_harmonic_intervals(emb, P, x, Some(100))
        IN  /\ err' = r.err
            /\ emb' = r.self
            /\ pianoroll_ret' = r.ret
            /\ written' = r.written
            /\ pianoroll_arg' = P
            /\ intervals_arg' = x
            /\ velocity_arg' = Some(100)
    /\ emb_pre' = emb
    /\ op' = "get_pianoroll_from_harmonic_intervals"
    /\ UNCHANGED <<ivars, origin_arg, leading_silence_arg, notes_ret, intervals_ret,
                   RLE_ret, ref_pianoroll_arg, pixels_arg, chunked_ret, bulk_arg,
                   RLE_bulk_ret, bulk_ret, pianoroll_first>>

\* get_pianoroll_from_barwise_intervals(x, origin, velocity, 0, pixels_per_bar), x given or omitted
Operand_get_pianoroll_from_barwise_intervals ==
    /\ op \in {"new", "set_cache"}
    /\ \E x \in IntervalsOperands, pixels_per_bar \in PixelsOperands :
        LET r == get_pianoroll_from_barwise_intervals(emb, x, Some(5), Some(100), 0, Some(pixels_per_bar))
        IN  /\ err' = r.err
            /\ emb' = r.self
            /\ pianoroll_ret' = r.ret
            /\ written' = r.written
            /\ intervals_arg' = x
            /\ origin_arg' = Some(5)
            /\ velocity_arg' = Some(100)
            /\ pixels_arg' = pixels_per_bar
    /\ emb_pre' = emb
    /\ op' = "get_pianoroll_from_barwise_intervals"
    /\ UNCHANGED <<ivars, pianoroll_arg, leading_silence_arg, notes_ret, intervals_ret,
                   RLE_ret, ref_pianoroll_arg, chunked_ret, bulk_arg, RLE_bulk_ret,
                   bulk_ret, pianoroll_first>>

\* chunk_sequence_of_intervals(x, pixels_per_chunk), x given or omitted
Operand_chunk_sequence_of_intervals ==
    /\ op \in {"new", "set_cache"}
    /\ \E x \in IntervalsOperands, pixels_per_chunk \in PixelsOperands :
        LET r == chunk_sequence_of_intervals(emb, x, Some(pixels_per_chunk))
        IN  /\ err' = r.err
            /\ chunked_ret' = r.ret
            /\ intervals_arg' = x
            /\ pixels_arg' = pixels_per_chunk
    /\ emb_pre' = emb
    /\ op' = "chunk_sequence_of_intervals"
    /\ UNCHANGED <<ivars, emb, pianoroll_arg, origin_arg, velocity_arg, leading_silence_arg,
                   notes_ret, intervals_ret, pianoroll_ret, RLE_ret, ref_pianoroll_arg,
                   written, bulk_arg, RLE_bulk_ret, bulk_ret, pianoroll_first>>

\* get_RLE_from_intervals(x), x given or omitted
Operand_get_RLE_from_intervals ==
    /\ op \in {"new", "set_cache"}
    /\ \E x \in IntervalsOperands :
        LET r == get_RLE_from_intervals(emb, x)
        IN  /\ err' = r.err
            /\ emb' = r.self
            /\ RLE_ret' = r.ret
            /\ intervals_arg' = x
    /\ emb_pre' = emb
    /\ op' = "get_RLE_from_intervals"
    /\ UNCHANGED <<ivars, pianoroll_arg, origin_arg, velocity_arg, leading_silence_arg,
                   notes_ret, intervals_ret, pianoroll_ret, ref_pianoroll_arg,
                   pixels_arg, written, chunked_ret, bulk_arg, RLE_bulk_ret, bulk_ret,
                   pianoroll_first>>

NextOperands ==
    \/ Call_new_embedder
    \/ Set_cache
    \/ Operand_extract_highest_pitch_notes_from_pianoroll
    \/ Operand_get_melodic_intervals_from_pianoroll
    \/ Operand_get_harmonic_intervals_from_pianoroll
    \/ Operand_get_barwise_intervals_from_pianoroll
    \/ Operand_get_pianoroll_from_melodic_intervals
    \/ Operand_get_pianoroll_from_harmonic_intervals
    \/ Operand_get_pianoroll_from_barwise_intervals
    \/ Operand_chunk_sequence_of_intervals
    \/ Operand_get_RLE_from_intervals

SpecOperands == Init /\ [][NextOperands]_vars

\* get_pianoroll_from_melodic_intervals(origin, velocity, leading_silence)
\* once more with the intervals omitted, after a call that returned
Call_again_get_pianoroll_from_melodic_intervals ==
    /\ op \in {"get_pianoroll_from_melodic_intervals",
               "get_pianoroll_from_melodic_intervals_again"}
    /\ err = "none"
    /\ Decoder_returns(get_pianoroll_from_melodic_intervals(
           emb, None, origin_arg, velocity_arg, leading_silence_arg))
    /\ pianoroll_first' = IF op = "get_pianoroll_from_melodic_intervals"
                          THEN pianoroll_ret ELSE pianoroll_first
    /\ emb_pre' = emb
    /\ op' = "get_pianoroll_from_melodic_intervals_again"
    /\ UNCHANGED <<ivars, xvars, pianoroll_arg, intervals_arg, origin_arg, velocity_arg,
                   leading_silence_arg, notes_ret, intervals_ret, RLE_ret, bulk_arg,
                   RLE_bulk_ret, bulk_ret>>

NextRepeat ==
    \/ NextMelodic
    \/ Call_again_get_pianoroll_from_melodic_intervals

SpecRepeat == Init /\ [][NextRepeat]_vars

\* the calls of the three decoders, each after its encoder
NextDecoders ==
    \/ NextMelodic
    \/ NextHarmonic
    \/ NextBarwise

SpecDecoders == Init /\ [][NextDecoders]_vars

(***************************************************************************)
(* Claims about the embedder                                               *)
(***************************************************************************)
\* the lanes of a pianoroll row whose cell is not zero
ActiveLanes(row) == {j \in 0..(Len(row) - 1) : row[j + 1] # 0}
\* the largest lane of a set of lanes, 0 for no lane
HighestLane(lanes) ==
    IF lanes = {} THEN 0 ELSE CHOOSE j \in lanes : \A k \in lanes : k <= j
\* the pianoroll whose active cells are all 1
Binarised(P) ==
    ndarray(P.w, [i \in 1..Len(P.rows) |->
                     [j \in 1..Len(P.rows[i]) |-> IF P.rows[i][j] # 0 THEN 1 ELSE 0]])

\* C10: for every step of an (n x 128) pianoroll with cells in 0..127,
\* extract_highest_pitch_notes_from_pianoroll returns the largest lane whose
\* cell is non-zero, and 0 when no cell of the step is non-zero; the result
\* is that of the pianoroll with every non-zero cell replaced by 1.
C10_HighestActiveLane ==
    (op = "extract_highest_pitch_notes_from_pianoroll" /\ ~IsNone(emb.pianoroll)) =>
        LET P == emb.pianoroll[1]
        IN  /\ err = "none"
            /\ Len(notes_ret) = Len(P.rows)
            /\ \A i \in 1..Len(P.rows) :
                   notes_ret[i] = HighestLane(ActiveLanes(P.rows[i]))
            /\ notes_ret =
                   extract_highest_pitch_notes_from_pianoroll(
                       [emb EXCEPT !.pianoroll = Some(Binarised(P))]).ret

\* C10 happens: a step with lane 0 at velocity 100, lane 5 at velocity 1
\* and lane 127 silent yields 5, and a step with no active lane yields 0
C10_Witness ==
    /\ op = "extract_highest_pitch_notes_from_pianoroll"
    /\ err = "none"
    /\ ~IsNone(emb.pianoroll)
    /\ Len(notes_ret) = 2
    /\ emb.pianoroll[1].rows[1][1] = 100
    /\ emb.pianoroll[1].rows[1][6] = 1
    /\ emb.pianoroll[1].rows[1][128] = 0
    /\ notes_ret[1] = 5
    /\ ActiveLanes(emb.pianoroll[1].rows[2]) = {}
    /\ notes_ret[2] = 0

\* C3: for every non-empty interval sequence x, get_intervals_from_RLE of
\* get_RLE_from_intervals(x) is x row for row in the original order, and
\* the run-length column of get_RLE_from_intervals(x) sums to the number
\* of rows of x.
C3_RLERoundTrip ==
    (/\ op \in {"get_RLE_from_intervals", "get_intervals_from_RLE"}
     /\ Len(intervals_arg[1].rows) >= 1) =>
        LET x == intervals_arg[1]
        IN  /\ err = "none"
            /\ column_sum(RLE_ret.rows, RLE_ret.w, Len(RLE_ret.rows)) = Len(x.rows)
            /\ op = "get_intervals_from_RLE" =>
                   /\ intervals_ret.w = x.w
                   /\ Len(intervals_ret.rows) = Len(x.rows)
                   /\ \A i \in 1..Len(x.rows) : intervals_ret.rows[i] = x.rows[i]

\* C3 happens: a sequence with a run of two rows followed by a different
\* row and the first row again is compressed to three runs and restored
C3_Witness ==
    /\ op = "get_intervals_from_RLE"
    /\ err = "none"
    /\ Len(intervals_arg[1].rows) = 4
    /\ intervals_arg[1].rows[1] = <<7, 2, 1, 9>>
    /\ intervals_arg[1].rows[2] = <<7, 2, 1, 9>>
    /\ intervals_arg[1].rows[3] = <<2, 1, 0, 0>>
    /\ intervals_arg[1].rows[4] = <<7, 2, 1, 9>>
    /\ Len(RLE_ret.rows) = 3
    /\ RLE_ret.rows[1] = <<7, 2, 1, 9, 2>>
    /\ intervals_ret.rows = intervals_arg[1].rows

\* the pitch sounded at step i of a pianoroll with at most one active lane
\* per step
PitchAt(P, i) == HighestLane(ActiveLanes(P.rows[i]))
Voiced(P, i) == ActiveLanes(P.rows[i]) # {}
\* at most one active lane per step, every active cell equal to v, step 0
\* voiced at p0, every later note at pitch >= 1, and consecutive sounded
\* notes at most 119 semitones apart
C2_Case(P, p0, v) ==
    /\ Len(P.rows) >= 1
    /\ \A i \in 1..Len(P.rows) :
        /\ Cardinality(ActiveLanes(P.rows[i])) <= 1
        /\ \A j \in ActiveLanes(P.rows[i]) : P.rows[i][j + 1] = v
    /\ ActiveLanes(P.rows[1]) = {p0}
    /\ \A i \in 2..Len(P.rows) : 0 \notin ActiveLanes(P.rows[i])
    /\ \A i, k \in 1..Len(P.rows) :
        (/\ i < k
         /\ Voiced(P, i)
         /\ Voiced(P, k)
         /\ \A m \in (i + 1)..(k - 1) : ~Voiced(P, m)) =>
            Abs(PitchAt(P, k) - PitchAt(P, i)) <= 119

\* C2: for every pianoroll P of that kind,
\* get_pianoroll_from_melodic_intervals(get_melodic_intervals_from_pianoroll(P),
\* origin = p0, velocity = v) returns P cell for cell.
C2_MelodicRoundTrip ==
    (/\ op = "get_pianoroll_from_melodic_intervals"
     /\ leading_silence_arg = 0
     /\ C2_Case(pianoroll_arg[1], origin_arg[1], velocity_arg[1])) =>
        /\ err = "none"
        /\ pianoroll_ret.w = pianoroll_arg[1].w
        /\ Len(pianoroll_ret.rows) = Len(pianoroll_arg[1].rows)
        /\ \A i \in 1..Len(pianoroll_arg[1].rows) :
               pianoroll_ret.rows[i] = pianoroll_arg[1].rows[i]

\* the lead pitches of a pianoroll: the highest active lane of every step
LeadPitches(P) == [i \in 1..Len(P.rows) |-> PitchAt(P, i)]
\* the most recent step before i with a non-zero lead pitch, the first step
\* if there is none
LastSounded(notes, i) ==
    LET earlier == {j \in 1..(i - 1) : notes[j] # 0}
    IN  IF earlier = {} THEN 1 ELSE CHOOSE j \in earlier : \A k \in earlier : k <= j

\* C11: in get_melodic_intervals_from_pianoroll, for every step i >= 1 the
\* row is the silence sentinel if the lead pitch at i is 0, and otherwise
\* semitone2interval(pitch[i] - pitch[j]) with j the most recent earlier
\* step with a non-zero lead pitch (step 0 if there is none).
C11_LastSoundedReference ==
    (/\ op = "get_melodic_intervals_from_pianoroll"
     /\ Len(pianoroll_arg[1].rows) >= 2) =>
        LET notes == LeadPitches(pianoroll_arg[1])
        IN  /\ err = "none"
            /\ \A i \in 2..Len(notes) :
                   intervals_ret.rows[i] =
                       IF notes[i] = 0 THEN get_silence_specs_list
                       ELSE get_specs_list(semitone2interval(interval_init,
                                Some(notes[i] - notes[LastSounded(notes, i)])))

\* C11 happens: pitches 66, silence, 5: the last row is the descending
\* interval of 61 semitones from step 0, not an interval from the silent step
C11_Witness ==
    /\ op = "get_melodic_intervals_from_pianoroll"
    /\ err = "none"
    /\ Len(pianoroll_arg[1].rows) = 3
    /\ LeadPitches(pianoroll_arg[1]) = <<66, 0, 5>>
    /\ intervals_ret.rows = << <<0, 0, 0, 0>>, <<0, 0, 0, 0>>, <<2, -1, 1, 5>> >>

\* C12: for every pianoroll with n >= 1 rows and 128 lanes,
\* get_melodic_intervals_from_pianoroll returns an interval sequence with
\* exactly n rows whose row 0 is the silence sentinel.
C12_RowZeroPlaceholder ==
    (/\ op = "get_melodic_intervals_from_pianoroll"
     /\ Len(pianoroll_arg[1].rows) >= 1
     /\ pianoroll_arg[1].w = NOTES_IN_MIDI) =>
        /\ err = "none"
        /\ Len(intervals_ret.rows) = Len(pianoroll_arg[1].rows)
        /\ intervals_ret.rows[1] = get_silence_specs_list

\* C13: get_pianoroll_from_melodic_intervals on an interval sequence of
\* n >= 1 rows raises ValueError if and only if leading_silence >= n; for
\* every leading_silence < n, valid origin and velocity and all rows
\* silence it returns an n-row pianoroll whose only active cell is
\* (leading_silence, origin), with value velocity.
C13_LeadingSilence ==
    (/\ op = "get_pianoroll_from_melodic_intervals"
     /\ Len(intervals_arg[1].rows) >= 1
     /\ \A i \in 1..Len(intervals_arg[1].rows) :
            intervals_arg[1].rows[i] = get_silence_specs_list) =>
        LET n == Len(intervals_arg[1].rows)
        IN  /\ (err = "ValueError") <=> (leading_silence_arg >= n)
            /\ (/\ leading_silence_arg < n
                /\ origin_arg[1] \in 0..127
                /\ velocity_arg[1] \in 0..127) =>
                   /\ err = "none"
                   /\ Len(pianoroll_ret.rows) = n
                   /\ \A i \in 1..n : \A j \in 0..(NOTES_IN_MIDI - 1) :
                          pianoroll_ret.rows[i][j + 1] =
                              IF i = leading_silence_arg + 1 /\ j = origin_arg[1]
                              THEN velocity_arg[1] ELSE 0

DecoderCalls ==
    {"get_pianoroll_from_melodic_intervals", "get_pianoroll_from_harmonic_intervals",
     "get_pianoroll_from_barwise_intervals"}
\* the last call was a decoder call that passed the tests made before
\* origin and velocity are looked at
C14_Case ==
    /\ op \in DecoderCalls
    /\ op # "get_pianoroll_from_harmonic_intervals" =>
           leading_silence_arg < Len(intervals_arg[1].rows)
    /\ op = "get_pianoroll_from_barwise_intervals" => pixels_arg >= 1
C14_ArgumentOutside ==
    \/ ~IsNone(origin_arg) /\ origin_arg[1] \notin 0..127
    \/ velocity_arg[1] \notin 0..127

\* C14: in the melodic, harmonic and barwise decoders an origin or velocity
\* argument outside 0..127 raises IndexError before any cell is assigned;
\* every cell a decoder assigns is in a lane 0..127 (a pitch outside raises
\* IndexError instead of being written at a wrapped index); and the active
\* cells of a returned pianoroll are the cells assigned, with the velocity.
C14_RangeChecked ==
    C14_Case =>
        /\ C14_ArgumentOutside => (err = "IndexError" /\ written = <<>>)
        /\ \A k \in 1..Len(written) :
               /\ written[k][2] \in 0..(NOTES_IN_MIDI - 1)
               /\ written[k][1] \in 0..(Len(intervals_arg[1].rows) - 1)
        /\ err = "none" =>
               \A i \in 1..Len(pianoroll_ret.rows) : \A j \in 1..NOTES_IN_MIDI :
                   pianoroll_ret.rows[i][j] =
                       IF \E k \in 1..Len(written) : written[k] = <<i - 1, j - 1>>
                       THEN velocity_arg[1] ELSE 0

\* C14 happens: the barwise decoder is given origin 127 for two bars of one
\* step whose second note is 61 semitones above the first: it writes the
\* first note (twice, at lane 127) and raises IndexError for 188
C14_Witness ==
    /\ op = "get_pianoroll_from_barwise_intervals"
    /\ err = "IndexError"
    /\ pixels_arg = 1
    /\ origin_arg = Some(127)
    /\ velocity_arg = Some(100)
    /\ leading_silence_arg = 0
    /\ intervals_arg[1].rows = << <<1, 0, 0, 0>>, <<2, -1, 0, 5>> >>
    /\ written = << <<0, 127>>, <<0, 127>> >>

\* the greatest lane strictly below pitch that is active in a reference row,
\* as a set: empty when the reference has no active lane below the pitch
NearestBelow(ref_row, pitch) ==
    {r \in ActiveLanes(ref_row) :
        r < pitch /\ \A k \in ActiveLanes(ref_row) : k < pitch => k <= r}

\* C15: get_harmonic_intervals_from_pianoroll returns one row per step of
\* the subject pianoroll: silence where the subject's lead pitch is 0;
\* semitone2interval(pitch - r) where r is the greatest lane strictly below
\* the lead pitch that is active in the reference at that step; silence
\* where the reference has no such lane, a silent reference step included.
\* The call raises nothing when the reference has a row for every step.
C15_NearestReferenceBelow ==
    (op = "get_harmonic_intervals_from_pianoroll") =>
        /\ Len(ref_pianoroll_arg[1].rows) >= Len(pianoroll_arg[1].rows) => err = "none"
        /\ err = "none" =>
            /\ Len(intervals_ret.rows) = Len(pianoroll_arg[1].rows)
            /\ \A i \in 1..Len(intervals_ret.rows) :
                LET pitch == PitchAt(pianoroll_arg[1], i)
                    below == IF pitch = 0 THEN {}
                             ELSE NearestBelow(ref_pianoroll_arg[1].rows[i], pitch)
                IN  /\ below = {} => intervals_ret.rows[i] = <<0, 0, 0, 0>>
                    /\ \A r \in below :
                           intervals_ret.rows[i] =
                               get_specs_list(semitone2interval(interval_init,
                                                                Some(pitch - r)))

\* C15 happens: the subject sounds 66 then 127 (over 5), the reference 5 and
\* 127 then 66: the rows are 61 semitones above lane 5 (not 127) and 61
\* above lane 66
C15_Witness ==
    /\ op = "get_harmonic_intervals_from_pianoroll"
    /\ err = "none"
    /\ LeadPitches(pianoroll_arg[1]) = <<66, 127>>
    /\ ActiveLanes(ref_pianoroll_arg[1].rows[1]) = {5, 127}
    /\ ActiveLanes(ref_pianoroll_arg[1].rows[2]) = {66}
    /\ intervals_ret.rows = << <<2, -1, 0, 5>>, <<2, -1, 0, 5>> >>

\* the lead pitch of step i of a reference pianoroll, 0 past its last step
RefLead(P, i) == IF i <= Len(P.rows) THEN PitchAt(P, i) ELSE 0
\* the row of NOTES_IN_MIDI cells that holds v in lane pitch and 0 elsewhere
OneNote(pitch, v) == [j \in 1..NOTES_IN_MIDI |-> IF j - 1 = pitch THEN v ELSE 0]

\* C16: get_pianoroll_from_harmonic_intervals returns one row per interval
\* row; at every step whose reference lead pitch r is non-zero exactly the
\* cell in lane r + interval2semitone(intervals[step]) holds velocity, and
\* every step whose reference lead pitch is 0 is an all-zero row.
C16_HarmonicDecode ==
    (op = "get_pianoroll_from_harmonic_intervals" /\ err = "none") =>
        /\ Len(pianoroll_ret.rows) = Len(intervals_arg[1].rows)
        /\ \A i \in 1..Len(pianoroll_ret.rows) :
            LET r == RefLead(ref_pianoroll_arg[1], i)
            IN  pianoroll_ret.rows[i] =
                    IF r = 0 THEN OneNote(0, 0)
                    ELSE OneNote(r + interval2semitone(interval_init,
                                         Some(PyList(intervals_arg[1].rows[i]))).ret,
                                 velocity_arg[1])

\* C16 happens: the intervals are 61 semitones up, then silence, the
\* reference sounds 66 and then nothing: the note is at 127 in the first row
\* and the second row is empty
C16_Witness ==
    /\ op = "get_pianoroll_from_harmonic_intervals"
    /\ err = "none"
    /\ intervals_arg[1].rows = << <<2, -1, 0, 5>>, <<0, 0, 0, 0>> >>
    /\ LeadPitches(ref_pianoroll_arg[1]) = <<66, 0>>
    /\ velocity_arg = Some(100)
    /\ pianoroll_ret.rows = <<OneNote(127, 100), OneNote(0, 0)>>

\* the steps (from 1) of bar b (from 0) of p steps, and those with a note
BarSteps(b, p) == (b * p + 1)..((b + 1) * p)
BarVoiced(notes, b, p) == {i \in BarSteps(b, p) : notes[i] # 0}
\* the first voiced step of a non-empty bar
BarFirst(notes, b, p) ==
    CHOOSE i \in BarVoiced(notes, b, p) : \A k \in BarVoiced(notes, b, p) : i <= k
\* the non-empty bars before bar b
BarsBefore(notes, b, p) == {c \in 0..(b - 1) : BarVoiced(notes, c, p) # {}}
\* the pitch the first note of the non-empty bar b is measured from: the
\* first pitch of the previous non-empty bar, its own for the first such bar
BarReference(notes, b, p) ==
    IF BarsBefore(notes, b, p) = {} THEN notes[BarFirst(notes, b, p)]
    ELSE notes[BarFirst(notes,
                        CHOOSE c \in BarsBefore(notes, b, p) :
                            \A e \in BarsBefore(notes, b, p) : e <= c,
                        p)]
\* the descriptor semitone2interval gives for a number of semitones
Descriptor(semitones) ==
    get_specs_list(semitone2interval(interval_init, Some(semitones)))

\* C17: get_barwise_intervals_from_pianoroll, over the consecutive bars of
\* pixels_per_bar steps: the row of the first voiced step of a non-empty bar
\* is semitone2interval(first pitch of the bar - first pitch of the previous
\* non-empty bar), the perfect unison [1,0,0,0] for the first non-empty bar;
\* a later voiced step of the bar is semitone2interval(pitch - first pitch
\* of the bar); the silent steps, those of an empty bar included, are the
\* silence sentinel, and an empty bar does not change the reference.
C17_BarwiseReference ==
    (op = "get_barwise_intervals_from_pianoroll" /\ err = "none") =>
        LET notes == LeadPitches(pianoroll_arg[1])
            p == pixels_arg
        IN  /\ Len(intervals_ret.rows) = Len(notes)
            /\ \A b \in 0..((Len(notes) \div p) - 1) :
                /\ \A i \in BarSteps(b, p) \ BarVoiced(notes, b, p) :
                       intervals_ret.rows[i] = <<0, 0, 0, 0>>
                /\ \A i \in BarVoiced(notes, b, p) :
                       intervals_ret.rows[i] =
                           IF i = BarFirst(notes, b, p)
                           THEN Descriptor(notes[i] - BarReference(notes, b, p))
                           ELSE Descriptor(notes[i] - notes[BarFirst(notes, b, p)])
                /\ (BarVoiced(notes, b, p) # {} /\ BarsBefore(notes, b, p) = {}) =>
                       intervals_ret.rows[BarFirst(notes, b, p)] = <<1, 0, 0, 0>>

\* C17 happens: bars of one step, 5, then an empty bar, then 66 and 5: the
\* third bar is measured from the first (61 up) across the empty bar, the
\* fourth from the third (61 down)
C17_Witness ==
    /\ op = "get_barwise_intervals_from_pianoroll"
    /\ err = "none"
    /\ pixels_arg = 1
    /\ LeadPitches(pianoroll_arg[1]) = <<5, 0, 66, 5>>
    /\ intervals_ret.rows =
           << <<1, 0, 0, 0>>, <<0, 0, 0, 0>>, <<2, -1, 0, 5>>, <<2, -1, 1, 5>> >>

\* a pianoroll of whole bars of p steps with at most one active lane per
\* step, every active cell equal to v at a pitch >= 1, at least one note,
\* and every pitch difference the barwise encoder stores at most 119
C18_Case(P, p, v) ==
    /\ p >= 1
    /\ Len(P.rows) % p = 0
    /\ \A i \in 1..Len(P.rows) :
        /\ Cardinality(ActiveLanes(P.rows[i])) <= 1
        /\ 0 \notin ActiveLanes(P.rows[i])
        /\ \A j \in ActiveLanes(P.rows[i]) : P.rows[i][j + 1] = v
    /\ \E i \in 1..Len(P.rows) : Voiced(P, i)
    /\ \A b \in 0..((Len(P.rows) \div p) - 1) :
        BarVoiced(LeadPitches(P), b, p) # {} =>
            /\ Abs(LeadPitches(P)[BarFirst(LeadPitches(P), b, p)]
                   - BarReference(LeadPitches(P), b, p)) <= 119
            /\ \A i \in BarVoiced(LeadPitches(P), b, p) :
                   Abs(LeadPitches(P)[i]
                       - LeadPitches(P)[BarFirst(LeadPitches(P), b, p)]) <= 119
\* the first voiced step of a pianoroll with a note, counted from 0
FirstVoiced(P) ==
    (CHOOSE i \in 1..Len(P.rows) :
        Voiced(P, i) /\ \A k \in 1..(i - 1) : ~Voiced(P, k)) - 1

\* C18: for every pianoroll P of that kind, with first voiced step k at
\* pitch p0, get_pianoroll_from_barwise_intervals(
\* get_barwise_intervals_from_pianoroll(P, ppb), origin = p0, velocity = v,
\* leading_silence = k, pixels_per_bar = ppb) returns P cell for cell.
C18_BarwiseRoundTrip ==
    (/\ op = "get_pianoroll_from_barwise_intervals"
     /\ velocity_arg[1] \in 0..127
     /\ C18_Case(pianoroll_arg[1], pixels_arg, velocity_arg[1])
     /\ leading_silence_arg = FirstVoiced(pianoroll_arg[1])
     /\ origin_arg[1] = PitchAt(pianoroll_arg[1], leading_silence_arg + 1)) =>
        /\ err = "none"
        /\ pianoroll_ret.w = pianoroll_arg[1].w
        /\ Len(pianoroll_ret.rows) = Len(pianoroll_arg[1].rows)
        /\ \A i \in 1..Len(pianoroll_arg[1].rows) :
               pianoroll_ret.rows[i] = pianoroll_arg[1].rows[i]

\* C18 happens: two bars of two steps, silence and 66, then 5 and 66, are
\* encoded and decoded from origin 66 with one leading silence
C18_Witness ==
    /\ op = "get_pianoroll_from_barwise_intervals"
    /\ err = "none"
    /\ pixels_arg = 2
    /\ LeadPitches(pianoroll_arg[1]) = <<0, 66, 5, 66>>
    /\ C18_Case(pianoroll_arg[1], pixels_arg, velocity_arg[1])
    /\ leading_silence_arg = 1
    /\ origin_arg = Some(66)
    /\ intervals_arg[1].rows =
           << <<0, 0, 0, 0>>, <<1, 0, 0, 0>>, <<2, -1, 1, 5>>, <<2, -1, 0, 5>> >>
    /\ pianoroll_ret = pianoroll_arg[1]

\* the sequence given to chunk_sequence_of_intervals has n > 0 rows, a
\* multiple of pixels_per_chunk >= 1
C19_Case ==
    /\ op \in {"chunk_sequence_of_intervals", "merge_chunked_intervals"}
    /\ pixels_arg >= 1
    /\ Len(intervals_arg[1].rows) > 0
    /\ Len(intervals_arg[1].rows) % pixels_arg = 0

\* C19: for every interval sequence x whose row count is a positive multiple
\* of pixels_per_chunk, chunk_sequence_of_intervals(x, pixels_per_chunk)
\* returns n / pixels_per_chunk chunks, chunk k holding rows
\* k * pixels_per_chunk .. (k + 1) * pixels_per_chunk - 1 of x in order, and
\* merge_chunked_intervals of the chunks equals x.
C19_ChunkMerge ==
    C19_Case =>
        /\ err = "none"
        /\ Len(chunked_ret.chunks) = Len(intervals_arg[1].rows) \div pixels_arg
        /\ \A k \in 0..(Len(chunked_ret.chunks) - 1) :
            /\ Len(chunked_ret.chunks[k + 1]) = pixels_arg
            /\ \A j \in 0..(pixels_arg - 1) :
                   chunked_ret.chunks[k + 1][j + 1]
                       = intervals_arg[1].rows[k * pixels_arg + j + 1]
        /\ op = "merge_chunked_intervals" =>
            /\ intervals_ret = intervals_arg[1]
            /\ emb.intervals = Some(intervals_arg[1])

\* C19 happens: four different rows are cut into two chunks of two rows and
\* merged again
C19_Witness ==
    /\ op = "merge_chunked_intervals"
    /\ pixels_arg = 2
    /\ intervals_arg[1].rows =
           << <<0, 0, 0, 0>>, <<2, 1, 0, 0>>, <<2, 1, 1, 0>>, <<7, 2, 1, 9>> >>
    /\ chunked_ret.chunks =
           << << <<0, 0, 0, 0>>, <<2, 1, 0, 0>> >>, << <<2, 1, 1, 0>>, <<7, 2, 1, 9>> >> >>
    /\ intervals_ret = intervals_arg[1]

\* the sequence given to chunk_sequence_of_intervals has a row count that
\* is not a multiple of pixels_per_chunk >= 1
C20_Case ==
    /\ op = "chunk_sequence_of_intervals"
    /\ pixels_arg >= 1
    /\ Len(intervals_arg[1].rows) % pixels_arg # 0

\* C20 as stated: when the row count n is not a multiple of
\* pixels_per_chunk the call does not fail and returns
\* floor(n / pixels_per_chunk) chunks holding the first
\* floor(n / pixels_per_chunk) * pixels_per_chunk rows.
C20_SilentlyTruncates ==
    C20_Case =>
        /\ err = "none"
        /\ Len(chunked_ret.chunks) = Len(intervals_arg[1].rows) \div pixels_arg
        /\ \A k \in 0..(Len(chunked_ret.chunks) - 1) : \A j \in 0..(pixels_arg - 1) :
               chunked_ret.chunks[k + 1][j + 1]
                   = intervals_arg[1].rows[k * pixels_arg + j + 1]

\* C20: when the row count n is not a multiple of pixels_per_chunk,
\* chunk_sequence_of_intervals raises ValueError (np.reshape cannot fit
\* n rows into floor(n / pixels_per_chunk) chunks) and returns nothing.
C20_ReshapeFails ==
    C20_Case => (err = "ValueError" /\ chunked_ret = NoChunks)

\* C20 happens: three rows are to be cut into chunks of two
C20_Witness ==
    /\ op = "chunk_sequence_of_intervals"
    /\ pixels_arg = 2
    /\ Len(intervals_arg[1].rows) = 3
    /\ err = "ValueError"
    /\ chunked_ret = NoChunks

\* the rows at which a maximal run of identical consecutive rows starts
RunStarts(rows) == {i \in 1..Len(rows) : i = 1 \/ rows[i] # rows[i - 1]}
\* the start of the k-th run (from 1)
RunStart(rows, k) ==
    CHOOSE i \in RunStarts(rows) : Cardinality({j \in RunStarts(rows) : j <= i}) = k
\* the number of rows of the run that starts at row i
RunLength(rows, i) ==
    Cardinality({j \in i..Len(rows) : \A m \in i..j : rows[m] = rows[i]})

\* C21: for every non-empty interval sequence, get_RLE_from_intervals
\* returns exactly one row per maximal run of identical consecutive rows,
\* in the order of the runs: the k-th output row is the descriptor of the
\* k-th run followed by its length, every run length is >= 1, and any two
\* adjacent output rows differ in at least one of the 4 descriptor fields.
C21_MaximalRuns ==
    (/\ op = "get_RLE_from_intervals"
     /\ Len(intervals_arg[1].rows) >= 1) =>
        LET x == intervals_arg[1].rows
        IN  /\ err = "none"
            /\ RLE_ret.w = feature_dimensions + 1
            /\ Len(RLE_ret.rows) = Cardinality(RunStarts(x))
            /\ \A k \in 1..Len(RLE_ret.rows) :
                /\ SubSeq(RLE_ret.rows[k], 1, feature_dimensions) = x[RunStart(x, k)]
                /\ RLE_ret.rows[k][feature_dimensions + 1] = RunLength(x, RunStart(x, k))
                /\ RLE_ret.rows[k][feature_dimensions + 1] >= 1
            /\ \A k \in 1..(Len(RLE_ret.rows) - 1) :
                   SubSeq(RLE_ret.rows[k], 1, feature_dimensions)
                       # SubSeq(RLE_ret.rows[k + 1], 1, feature_dimensions)

\* C21 happens: a row, a run of two other rows and the first row again are
\* compressed to three runs, the first and the last with the same descriptor
C21_Witness ==
    /\ op = "get_RLE_from_intervals"
    /\ err = "none"
    /\ intervals_arg[1].rows =
           << <<2, 1, 0, 0>>, <<2, 1, 1, 0>>, <<2, 1, 1, 0>>, <<2, 1, 0, 0>> >>
    /\ RLE_ret.rows = << <<2, 1, 0, 0, 1>>, <<2, 1, 1, 0, 2>>, <<2, 1, 0, 0, 1>> >>

\* C22: for every batch of non-empty interval sequences of the same length,
\* get_intervals_from_RLE_bulk(get_RLE_from_intervals_bulk(batch)) equals
\* the batch element for element, and every element is compressed and
\* decompressed as get_RLE_from_intervals and get_intervals_from_RLE do it.
C22_BulkRoundTrip ==
    (/\ op \in {"get_RLE_from_intervals_bulk", "get_intervals_from_RLE_bulk"}
     /\ Len(bulk_arg.chunks) >= 1
     /\ bulk_arg.p >= 1) =>
        /\ err = "none"
        /\ Len(RLE_bulk_ret) = Len(bulk_arg.chunks)
        /\ \A k \in 1..Len(bulk_arg.chunks) :
               RLE_bulk_ret[k] =
                   get_RLE_from_intervals(embedder_init,
                       Some(ndarray(bulk_arg.w, bulk_arg.chunks[k]))).ret
        /\ op = "get_intervals_from_RLE_bulk" =>
            /\ bulk_ret.p = bulk_arg.p
            /\ bulk_ret.w = bulk_arg.w
            /\ Len(bulk_ret.chunks) = Len(bulk_arg.chunks)
            /\ \A k \in 1..Len(bulk_arg.chunks) :
                /\ bulk_ret.chunks[k] = bulk_arg.chunks[k]
                /\ bulk_ret.chunks[k] =
                       get_intervals_from_RLE(embedder_init, RLE_bulk_ret[k]).ret.rows

\* C22 happens: a batch of two sequences of three rows, one a single run
\* and one of three runs, is compressed and restored
C22_Witness ==
    /\ op = "get_intervals_from_RLE_bulk"
    /\ err = "none"
    /\ bulk_arg.chunks =
           << << <<2, 1, 0, 0>>, <<2, 1, 0, 0>>, <<2, 1, 0, 0>> >>,
              << <<0, 0, 0, 0>>, <<2, 1, 0, 0>>, <<0, 0, 0, 0>> >> >>
    /\ Len(RLE_bulk_ret[1].rows) = 1
    /\ Len(RLE_bulk_ret[2].rows) = 3
    /\ bulk_ret = bulk_arg

\* the entry points that read a pianoroll, an interval sequence, a number
\* of pixels
UsesPianoroll ==
    op \in {"extract_highest_pitch_notes_from_pianoroll",
            "get_melodic_intervals_from_pianoroll",
            "get_harmonic_intervals_from_pianoroll",
            "get_barwise_intervals_from_pianoroll",
            "get_pianoroll_from_harmonic_intervals"}
UsesIntervals ==
    op \in {"get_pianoroll_from_melodic_intervals",
            "get_pianoroll_from_harmonic_intervals",
            "get_pianoroll_from_barwise_intervals",
            "chunk_sequence_of_intervals",
            "get_RLE_from_intervals"}
UsesPixels ==
    op \in {"get_barwise_intervals_from_pianoroll",
            "get_pianoroll_from_barwise_intervals",
            "chunk_sequence_of_intervals"}
\* the grid a call is to work on: the operand, the cached value if omitted
EffPianoroll == IF ~IsNone(pianoroll_arg) THEN pianoroll_arg ELSE emb_pre.pianoroll
EffIntervals == IF ~IsNone(intervals_arg) THEN intervals_arg ELSE emb_pre.intervals
\* the exceptions the operands of the last call call for
OperandFaults ==
    {k \in {"TypeError", "IndexError", "ValueError"} :
        \/ /\ k = "TypeError"
           /\ \/ UsesPianoroll /\ IsNone(EffPianoroll)
              \/ UsesIntervals /\ IsNone(EffIntervals)
        \/ /\ k = "IndexError"
           /\ \/ UsesPianoroll /\ ~IsNone(EffPianoroll)
                               /\ EffPianoroll[1].w # NOTES_IN_MIDI
              \/ UsesIntervals /\ ~IsNone(EffIntervals)
                               /\ EffIntervals[1].w # feature_dimensions
              \/ op = "get_harmonic_intervals_from_pianoroll"
                     /\ ref_pianoroll_arg[1].w # NOTES_IN_MIDI
        \/ /\ k = "ValueError"
           /\ UsesPixels /\ pixels_arg < 1}
\* what the last call returns when it is given the cached grids explicitly
ExplicitCall ==
    CASE op = "get_melodic_intervals_from_pianoroll" ->
             get_melodic_intervals_from_pianoroll(emb_pre, EffPianoroll)
      [] op = "get_harmonic_intervals_from_pianoroll" ->
             get_harmonic_intervals_from_pianoroll(emb_pre, ref_pianoroll_arg[1],
                                                   EffPianoroll)
      [] op = "get_barwise_intervals_from_pianoroll" ->
             get_barwise_intervals_from_pianoroll(emb_pre, EffPianoroll, Some(pixels_arg))
      [] op = "get_pianoroll_from_melodic_intervals" ->
             get_pianoroll_from_melodic_intervals(emb_pre, EffIntervals, origin_arg,
                                                  velocity_arg, leading_silence_arg)
      [] op = "get_pianoroll_from_harmonic_intervals" ->
             get_pianoroll_from_harmonic_intervals(emb_pre, EffPianoroll, EffIntervals,
                                                   velocity_arg)
      [] op = "get_pianoroll_from_barwise_intervals" ->
             get_pianoroll_from_barwise_intervals(emb_pre, EffIntervals, origin_arg,
                                                  velocity_arg, leading_silence_arg,
                                                  Some(pixels_arg))
      [] op = "chunk_sequence_of_intervals" ->
             [self |-> emb_pre]
                 @@ chunk_sequence_of_intervals(emb_pre, EffIntervals, Some(pixels_arg))
      [] op = "get_RLE_from_intervals" ->
             get_RLE_from_intervals(emb_pre, EffIntervals)
\* what the last call returned
Returned ==
    CASE op \in {"get_melodic_intervals_from_pianoroll",
                 "get_harmonic_intervals_from_pianoroll",
                 "get_barwise_intervals_from_pianoroll"} -> intervals_ret
      [] op \in {"get_pianoroll_from_melodic_intervals",
                 "get_pianoroll_from_harmonic_intervals",
                 "get_pianoroll_from_barwise_intervals"} -> pianoroll_ret
      [] op = "chunk_sequence_of_intervals" -> chunked_ret
      [] op = "get_RLE_from_intervals" -> RLE_ret

\* C23: every entry point with an optional grid operand works on the cached
\* value when the operand is omitted (it returns, raises and leaves behind
\* what the call given the cached value explicitly does); raises TypeError
\* when the operand and the cached value are both absent, and only then;
\* raises IndexError when the second dimension of the grid is not 128
\* (pianoroll) or 4 (intervals); raises ValueError when pixels_per_bar or
\* pixels_per_chunk is < 1.  A call with several such faults raises for one
\* of them.
C23_OperandValidation ==
    (UsesPianoroll \/ UsesIntervals) =>
        /\ OperandFaults # {} => err \in OperandFaults
        /\ err = "TypeError" => "TypeError" \in OperandFaults
        /\ (OperandFaults = {} /\ op # "extract_highest_pitch_notes_from_pianoroll") =>
            /\ err = ExplicitCall.err
            /\ emb = ExplicitCall.self
            /\ err = "none" => Returned = ExplicitCall.ret

\* C23 happens: the melodic decoder is called with its intervals omitted on
\* an object whose cached intervals are set, and returns their pianoroll
C23_Witness ==
    /\ op = "get_pianoroll_from_melodic_intervals"
    /\ IsNone(intervals_arg)
    /\ emb_pre.intervals = Some(CachedIntervals)
    /\ err = "none"
    /\ pianoroll_ret = MelodyRoll(<<5, 5, 66>>, 100)

\* an entry point that stores its operand was given a pianoroll or an
\* interval sequence whose second dimension is wrong, and raised IndexError
C24_Case ==
    /\ err = "IndexError"
    /\ \/ /\ UsesPianoroll
          /\ ~IsNone(pianoroll_arg)
          /\ pianoroll_arg[1].w # NOTES_IN_MIDI
       \/ /\ UsesIntervals
          /\ ~IsNone(intervals_arg)
          /\ intervals_arg[1].w # feature_dimensions

\* C24: when a transform is called with an explicit pianoroll or intervals
\* operand that fails dimension validation (IndexError), the cached
\* pianoroll and the cached intervals are after the call what they were
\* before it.
C24_NoPartialMutation ==
    C24_Case =>
        /\ emb.pianoroll = emb_pre.pianoroll
        /\ emb.intervals = emb_pre.intervals

\* the semitones a descriptor row stands for, 0 for a silent row
RowSemitones(row) ==
    IF is_silence(set_specs_list(interval_init, PyList(row)).self) THEN 0
    ELSE interval2semitone(interval_init, Some(PyList(row))).ret
\* the running pitch of the reference decoder after row k (from 1) of the
\* sequence without its row 0, starting from origin at row leading_silence
RECURSIVE RunningPitch(_, _, _, _)
RunningPitch(cut, leading_silence, origin, k) ==
    IF k <= leading_silence THEN origin
    ELSE RunningPitch(cut, leading_silence, origin, k - 1) + RowSemitones(cut[k])
\* the pianoroll of the reference decoder: origin at row leading_silence
\* and, for every non-silent row k after it, the running pitch one row later
ReferenceDecoder(cut, leading_silence, origin, velocity) ==
    ndarray(NOTES_IN_MIDI,
        [i \in 1..(Len(cut) + 1) |-> [j \in 1..NOTES_IN_MIDI |->
            IF \/ i - 1 = leading_silence /\ j - 1 = origin
               \/ /\ i - 1 > leading_silence
                  /\ ~is_silence(set_specs_list(interval_init, PyList(cut[i - 1])).self)
                  /\ j - 1 = RunningPitch(cut, leading_silence, origin, i - 1)
            THEN velocity ELSE 0]])
\* a valid sequence, origin, velocity and leading_silence whose pitches stay
\* in 0..127
C25_Case ==
    /\ op = "get_pianoroll_from_melodic_intervals"
    /\ leading_silence_arg < Len(intervals_arg[1].rows) - 1
    /\ origin_arg[1] \in 0..127
    /\ velocity_arg[1] \in 0..127
    /\ \A k \in 2..Len(intervals_arg[1].rows) :
           set_specs_list(interval_init, PyList(intervals_arg[1].rows[k])).err = "none"
    /\ \A k \in 1..(Len(intervals_arg[1].rows) - 1) :
           RunningPitch(Tail(intervals_arg[1].rows), leading_silence_arg,
                        origin_arg[1], k) \in 0..127

\* C25: the repeated-descriptor shortcut of
\* get_pianoroll_from_melodic_intervals never changes the result: for
\* every valid sequence, origin, velocity and leading_silence whose pitches
\* stay in 0..127 the call returns the pianoroll of the reference decoder,
\* which recomputes interval2semitone for every non-silent row.
C25_ShortcutIsTransparent ==
    C25_Case =>
        /\ err = "none"
        /\ pianoroll_ret = ReferenceDecoder(Tail(intervals_arg[1].rows),
                                            leading_silence_arg, origin_arg[1],
                                            velocity_arg[1])

\* C26: a successful get_pianoroll_from_melodic_intervals(x) leaves the
\* cached interval sequence equal to x, and every later call with the
\* intervals omitted (same origin, velocity, leading_silence) returns the
\* pianoroll the first call returned.
C26_CacheIsOperand ==
    /\ (op = "get_pianoroll_from_melodic_intervals" /\ err = "none") =>
           emb.intervals = intervals_arg
    /\ op = "get_pianoroll_from_melodic_intervals_again" =>
           /\ err = "none"
           /\ pianoroll_ret = pianoroll_first

\* the calls of the three encoders
EncoderCalls ==
    {"get_melodic_intervals_from_pianoroll", "get_harmonic_intervals_from_pianoroll",
     "get_barwise_intervals_from_pianoroll"}
\* a descriptor row within the validated ranges
RowInRange(row) ==
    /\ row[1] \in 0..7
    /\ row[2] \in (0 - 2)..2
    /\ row[3] \in 0..1
    /\ row[4] \in 0..9

\* C27: every descriptor row an encoder emits for a 128-lane pianoroll lies
\* within the validated ranges and is accepted by set_specs_list, and the
\* decoder given the encoder's output raises no ValueError.
C27_EncoderRowsValid ==
    /\ (op \in EncoderCalls /\ err = "none") =>
           \A k \in 1..Len(intervals_ret.rows) :
               /\ RowInRange(intervals_ret.rows[k])
               /\ set_specs_list(interval_init, PyList(intervals_ret.rows[k])).err = "none"
    /\ (op \in DecoderCalls /\ intervals_arg = Some(intervals_ret)
            /\ origin_arg[1] \in 0..127 /\ velocity_arg[1] \in 0..127) =>
           err # "ValueError"

\* C28: every row of a pianoroll returned by
\* get_pianoroll_from_melodic_intervals or
\* get_pianoroll_from_barwise_intervals has at most one active cell.
C28_Monophonic ==
    (/\ op \in {"get_pianoroll_from_melodic_intervals",
                "get_pianoroll_from_barwise_intervals"}
     /\ err = "none") =>
        \A i \in 1..Len(pianoroll_ret.rows) :
            Cardinality(ActiveLanes(pianoroll_ret.rows[i])) <= 1

\* C29: in get_pianoroll_from_harmonic_intervals a silence interval row
\* decodes to silence: at every step whose interval row is [0,0,0,0] the
\* output row is all zero, whether or not the reference is voiced there.
C29_SilenceDecodesToSilence ==
    (op = "get_pianoroll_from_harmonic_intervals" /\ err = "none") =>
        \A i \in 1..Len(pianoroll_ret.rows) :
            intervals_arg[1].rows[i] = <<0, 0, 0, 0>> =>
                ActiveLanes(pianoroll_ret.rows[i]) = {}

\* C30: get_barwise_intervals_from_pianoroll returns one row per pianoroll
\* step and a non-silence descriptor at every step whose lead pitch is
\* non-zero, for every length and every pixels_per_bar >= 1, steps of a
\* trailing bar shorter than pixels_per_bar included.
C30_EveryVoicedStepEncoded ==
    (op = "get_barwise_intervals_from_pianoroll" /\ err = "none" /\ pixels_arg >= 1) =>
        /\ Len(intervals_ret.rows) = Len(pianoroll_arg[1].rows)
        /\ \A i \in 1..Len(pianoroll_arg[1].rows) :
               HighestLane(ActiveLanes(pianoroll_arg[1].rows[i])) # 0 =>
                   intervals_ret.rows[i] # <<0, 0, 0, 0>>

====
